---- MODULE Spec2Model ----
(***************************************************************************)
(* Element addressing, validation and safe-write pipeline of the form      *)
(* filler (Word handlers): index -> validate -> dry-run / write -> verify. *)
(*                                                                         *)
(* A document body is a tree of nodes [tag, attr, text, tail, kids]; an    *)
(* element is identified by its path of child indices from <w:body>.       *)
(* Text is a sequence of one-character strings; the character "E" stands   *)
(* for the literal word "Enter" of the placeholder pattern.  A tag is the  *)
(* prefixed name of an element of the wordprocessingml namespace ("w:tc"); *)
(* "{m}oMath" is an element of a namespace that NAMESPACES does not list.  *)
(* An XPath is the sequence of its steps [name, pos], pos = 0 meaning "no  *)
(* position predicate"; the empty sequence is the string "./".             *)
(***************************************************************************)
EXTENDS Integers, Sequences, FiniteSets, TLC

VARIABLES doc, op, arg, res, pre, prev, nWrites

vars == <<doc, op, arg, res, pre, prev, nWrites>>

(***************************************************************************)
(* Bounds of the model.                                                    *)
(***************************************************************************)
MaxRows == 2
MaxWrites == 2
MaxSeed == 1

(***************************************************************************)
(* Text helpers (str.strip, re.search, str.join, slicing).                 *)
(***************************************************************************)
IsSpace(c) == c = " "

RECURSIVE LStrip(_)
LStrip(s) == IF s # <<>> /\ IsSpace(Head(s)) THEN LStrip(Tail(s)) ELSE s

RECURSIVE RStrip(_)
RStrip(s) ==
  IF s # <<>> /\ IsSpace(s[Len(s)]) THEN RStrip(SubSeq(s, 1, Len(s) - 1)) ELSE s

Strip(s) == RStrip(LStrip(s))

BracketAt(s, i) ==
  /\ i + 1 <= Len(s)
  /\ s[i] = "[" /\ s[i + 1] = "E"
  /\ \E j \in (i + 2)..Len(s) :
       s[j] = "]" /\ \A k \in (i + 2)..(j - 1) : s[k] # "]"

UnderscoresAt(s, i) ==
  i + 2 <= Len(s) /\ s[i] = "_" /\ s[i + 1] = "_" /\ s[i + 2] = "_"

PLACEHOLDER_RE(s) == \E i \in 1..Len(s) : BracketAt(s, i) \/ UnderscoresAt(s, i)

RECURSIVE Flatten(_)
Flatten(parts) == IF parts = <<>> THEN <<>> ELSE Head(parts) \o Flatten(Tail(parts))

RECURSIVE JoinSpace(_)
JoinSpace(parts) ==
  IF parts = <<>> THEN <<>>
  ELSE IF Len(parts) = 1 THEN Head(parts)
  ELSE Head(parts) \o <<" ">> \o JoinSpace(Tail(parts))

Ellipsis == <<".", ".", ".">>

Truncate(s, n) == IF Len(s) > n THEN SubSeq(s, 1, n) \o Ellipsis ELSE s

(***************************************************************************)
(* Trees.                                                                  *)
(***************************************************************************)
\* attributes: the sequence of <<name, value>> pairs in document order
NoAttr == <<>>

AttrSet(n) == {n.attr[i] : i \in 1..Len(n.attr)}

\* element.get(name, default)
GetAttr(n, name, default) ==
  IF \E i \in 1..Len(n.attr) : n.attr[i][1] = name
  THEN n.attr[CHOOSE i \in 1..Len(n.attr) : n.attr[i][1] = name][2]
  ELSE default

Node(tag, attr, text, kids) ==
  [tag |-> tag, attr |-> attr, text |-> text, tail |-> <<>>, kids |-> kids]

RECURSIVE NodeAt(_, _)
NodeAt(root, path) ==
  IF path = <<>> THEN root ELSE NodeAt(root.kids[Head(path)], Tail(path))

RECURSIVE IterPaths(_, _), IterKids(_, _, _)
IterPaths(n, prefix) == <<prefix>> \o IterKids(n, prefix, 1)
IterKids(n, prefix, i) ==
  IF i > Len(n.kids) THEN <<>>
  ELSE IterPaths(n.kids[i], Append(prefix, i)) \o IterKids(n, prefix, i + 1)

\* element.iter(tag): the element itself and its descendants, document order
IterTag(root, tag) ==
  LET all == IterPaths(root, <<>>)
  IN  SelectSeq(all, LAMBDA p : NodeAt(root, p).tag = tag)

\* element.find(".//tag") is not None: a proper descendant has the tag
FindDesc(n, tag) == \E i \in 1..Len(n.kids) : IterTag(n.kids[i], tag) # <<>>

\* element.findall("w:x"): indices of the direct children with the tag
RECURSIVE FindAllFrom(_, _, _)
FindAllFrom(n, tag, i) ==
  IF i > Len(n.kids) THEN <<>>
  ELSE (IF n.kids[i].tag = tag THEN <<i>> ELSE <<>>) \o FindAllFrom(n, tag, i + 1)
FindAll(n, tag) == FindAllFrom(n, tag, 1)

RECURSIVE TextParts(_), TextPartsKids(_, _)
TextParts(n) ==
  (IF n.tag = "w:t" /\ n.text # <<>> THEN <<n.text>> ELSE <<>>) \o TextPartsKids(n, 1)
TextPartsKids(n, i) ==
  IF i > Len(n.kids) THEN <<>> ELSE TextParts(n.kids[i]) \o TextPartsKids(n, i + 1)

\* word_element_analysis.get_text / word_indexer._get_text
get_text(n) == Flatten(TextParts(n))

is_answer_target(text) == Strip(text) = <<>> \/ PLACEHOLDER_RE(Strip(text))


(***************************************************************************)
(* XPath construction and evaluation.                                      *)
(***************************************************************************)
\* word_indexer._clark_to_prefixed: {uri}local -> prefix:local for the
\* namespaces of NAMESPACES, the bare local name for any other namespace
ForeignLocal == [t \in {"{m}oMath"} |-> "oMath"]

_clark_to_prefixed(tag) ==
  IF tag \in DOMAIN ForeignLocal THEN ForeignLocal[tag] ELSE tag

\* indices of the children of parent that carry the tag of child i
SameTag(parent, i) == FindAll(parent, parent.kids[i].tag)

IndexIn(seq, x) == CHOOSE k \in 1..Len(seq) : seq[k] = x

\* a mutant: the position is the raw child index, not the same-tag rank
StepForRawIndex(parent, i) ==
  LET same == SameTag(parent, i)
      q    == _clark_to_prefixed(parent.kids[i].tag)
  IN  [name |-> q, pos |-> IF Len(same) > 1 THEN i ELSE 0]

\* the step for child i of parent: name[pos] when same-tag siblings exist
StepFor(parent, i) ==
  LET same == SameTag(parent, i)
      q    == _clark_to_prefixed(parent.kids[i].tag)
  IN  [name |-> q, pos |-> IF Len(same) > 1 THEN IndexIn(same, i) ELSE 0]

\* word_indexer._build_xpath_to / xml_snippet_matching._build_xpath
_build_xpath_to(root, path) ==
  [k \in 1..Len(path) |-> StepFor(NodeAt(root, SubSeq(path, 1, k - 1)), path[k])]

_build_xpath(root, path) ==
  [k \in 1..Len(path) |-> StepFor(NodeAt(root, SubSeq(path, 1, k - 1)), path[k])]

\* children of the context node selected by one step, document order
StepFrom(root, ctx, step) ==
  LET n    == NodeAt(root, ctx)
      hits == SelectSeq([i \in 1..Len(n.kids) |-> i],
                        LAMBDA i : n.kids[i].tag = step.name)
  IN  IF step.pos = 0 THEN [k \in 1..Len(hits) |-> Append(ctx, hits[k])]
      ELSE IF step.pos <= Len(hits) THEN <<Append(ctx, hits[step.pos])>>
      ELSE <<>>

RECURSIVE StepAll(_, _, _)
StepAll(root, ctxs, step) ==
  IF ctxs = <<>> THEN <<>>
  ELSE StepFrom(root, Head(ctxs), step) \o StepAll(root, Tail(ctxs), step)

RECURSIVE EvalSteps(_, _, _)
EvalSteps(root, ctxs, steps) ==
  IF steps = <<>> THEN ctxs
  ELSE EvalSteps(root, StepAll(root, ctxs, Head(steps)), Tail(steps))

\* lxml rejects "./" (no step after the slash) with XPathEvalError
XPathRaises(xp) == xp = <<>>

\* body.xpath(xpath, namespaces=NAMESPACES): the matched paths, document order
xpath(root, xp) == EvalSteps(root, <<<<>>>>, xp)

(***************************************************************************)
(* Compact extraction (word_indexer).                                      *)
(***************************************************************************)
COMPLEX_TAGS == {"w:sdt", "w:fldChar", "w:txbxContent", "w:object"}

\* COMPLEX_TAGS is a Python set of strings: its iteration order is fixed by
\* the string hash seed of the server process.  The orders below are those
\* of CPython 3.11 under PYTHONHASHSEED = 0 .. 5.
HashOrder ==
  [seed \in 0..5 |->
     CASE seed = 0 -> <<"w:fldChar", "w:txbxContent", "w:object", "w:sdt">>
       [] seed = 1 -> <<"w:object", "w:sdt", "w:txbxContent", "w:fldChar">>
       [] seed = 2 -> <<"w:fldChar", "w:sdt", "w:object", "w:txbxContent">>
       [] seed = 3 -> <<"w:sdt", "w:txbxContent", "w:object", "w:fldChar">>
       [] seed = 4 -> <<"w:sdt", "w:txbxContent", "w:fldChar", "w:object">>
       [] seed = 5 -> <<"w:txbxContent", "w:sdt", "w:fldChar", "w:object">>]

\* the hash seeds of the processes that serve the calls
Seeds == 0..MaxSeed

\* tag.split("}")[-1]
LocalOf ==
  [t \in COMPLEX_TAGS |->
     CASE t = "w:sdt" -> "sdt" [] t = "w:fldChar" -> "fldChar"
       [] t = "w:txbxContent" -> "txbxContent" [] t = "w:object" -> "object"]

NoComplex == [kind |-> "none", val |-> ""]

\* the first proper descendant with the tag, document order
FirstDesc(n, tag) ==
  LET hits == SelectSeq(IterTag(n, tag), LAMBDA p : p # <<>>)
  IN  NodeAt(n, Head(hits))

\* word_indexer._detect_complex, order = iteration order of COMPLEX_TAGS
_detect_complex(element, order) ==
  LET present == SelectSeq(order, LAMBDA t : FindDesc(element, t))
  IN  IF present # <<>> THEN [kind |-> LocalOf[Head(present)], val |-> ""]
      ELSE IF element.tag = "w:tc" /\ FindDesc(element, "w:tbl")
        THEN [kind |-> "nested_table", val |-> ""]
      ELSE IF /\ FindDesc(element, "w:gridSpan")
              /\ GetAttr(FirstDesc(element, "w:gridSpan"), "w:val", "") \notin {"", "1"}
        THEN [kind |-> "gridSpan",
              val |-> GetAttr(FirstDesc(element, "w:gridSpan"), "w:val", "")]
      ELSE IF FindDesc(element, "w:vMerge") THEN [kind |-> "vMerge", val |-> ""]
      ELSE NoComplex

\* str.lower on the fill values that occur
LowerFill(v) == IF v = "FFFFFF" THEN "ffffff" ELSE v

\* word_indexer._get_formatting_hints
_get_formatting_hints(element, text) ==
  (IF Strip(text) = <<>> THEN <<"empty">>
   ELSE IF PLACEHOLDER_RE(text) THEN <<"placeholder">> ELSE <<>>)
  \o (IF FindDesc(element, "w:b") THEN <<"bold">> ELSE <<>>)
  \o (IF FindDesc(element, "w:i") THEN <<"italic">> ELSE <<>>)
  \o (IF /\ FindDesc(element, "w:shd")
         /\ LowerFill(GetAttr(FirstDesc(element, "w:shd"), "w:fill", ""))
              \notin {"", "auto", "ffffff"}
      THEN <<"shaded">> ELSE <<>>)

\* word_indexer._get_target_marker: TRUE stands for " <- answer target"
_get_target_marker(text) ==
  Strip(text) = <<>> \/ PLACEHOLDER_RE(Strip(text))

\* etree.tostring(element, encoding="unicode"): the markup as a token sequence
RECURSIVE tostring(_), tostringKids(_, _), tostringAttr(_, _)
tostring(n) ==
  <<"<", n.tag>> \o tostringAttr(n, 1) \o <<">">> \o n.text
  \o tostringKids(n, 1) \o <<"</", n.tag, ">">> \o n.tail
tostringKids(n, i) ==
  IF i > Len(n.kids) THEN <<>> ELSE tostring(n.kids[i]) \o tostringKids(n, i + 1)
tostringAttr(n, i) ==
  IF i > Len(n.attr) THEN <<>>
  ELSE <<n.attr[i][1], "=", n.attr[i][2]>> \o tostringAttr(n, i + 1)

MaxRawSnippet == 500

\* word_indexer._index_cell / _index_paragraph: the compact line of an element
\* f'{id}: COMPLEX({type}): {raw}'  or  f'{id}: "{text}"{hints}{marker}'
_index_cell(element, element_id, order) ==
  LET ct   == _detect_complex(element, order)
      text == get_text(element)
  IN  IF ct # NoComplex
      THEN [id |-> element_id, complex |-> ct,
            raw |-> Truncate(tostring(element), MaxRawSnippet),
            text |-> <<>>, hints |-> <<>>, target |-> FALSE]
      ELSE [id |-> element_id, complex |-> NoComplex, raw |-> <<>>,
            text |-> text, hints |-> _get_formatting_hints(element, text),
            target |-> _get_target_marker(text)]

\* a mutant: every cell of a row is recorded with the path of the first cell
_index_table_first_cell(body, ti, tbl_num) ==
  LET tbl  == body.kids[ti]
      rows == FindAll(tbl, "w:tr")
      RowCells(r) ==
        LET cells == FindAll(tbl.kids[rows[r]], "w:tc")
        IN  [c \in 1..Len(cells) |->
               [id |-> <<"T", tbl_num, r, c>>, path |-> <<ti, rows[r], cells[1]>>]]
  IN  Flatten([r \in 1..Len(rows) |-> RowCells(r)])

\* word_indexer._index_table: the cells of table tbl_num (body child ti),
\* rows and cells numbered among the w:tr / w:tc children only
_index_table(body, ti, tbl_num) ==
  LET tbl  == body.kids[ti]
      rows == FindAll(tbl, "w:tr")
      RowCells(r) ==
        LET cells == FindAll(tbl.kids[rows[r]], "w:tc")
        IN  [c \in 1..Len(cells) |->
               [id |-> <<"T", tbl_num, r, c>>, path |-> <<ti, rows[r], cells[c]>>]]
  IN  Flatten([r \in 1..Len(rows) |-> RowCells(r)])

\* etree.QName(child).localname
LocalNameIs(tag, local) ==
  \/ local = "tbl" /\ tag = "w:tbl"
  \/ local = "p" /\ tag = "w:p"

\* the loop of extract_structure_compact over the children of the body:
\* the indexed elements <<id, path>> in traversal order
RECURSIVE IndexWalk(_, _, _, _)
IndexWalk(body, i, p_counter, t_counter) ==
  IF i > Len(body.kids) THEN <<>>
  ELSE IF LocalNameIs(body.kids[i].tag, "tbl")
    THEN _index_table(body, i, t_counter + 1)
         \o IndexWalk(body, i + 1, p_counter, t_counter + 1)
  ELSE IF LocalNameIs(body.kids[i].tag, "p")
    THEN <<[id |-> <<"P", p_counter + 1, 0, 0>>, path |-> <<i>>]>>
         \o IndexWalk(body, i + 1, p_counter + 1, t_counter)
  ELSE IndexWalk(body, i + 1, p_counter, t_counter)

Entries(body) == IndexWalk(body, 1, 0, 0)

LastWith(es, id) == es[CHOOSE k \in 1..Len(es) :
                         es[k].id = id /\ \A j \in (k + 1)..Len(es) : es[j].id # id]

\* the id_to_xpath dict that extract_structure_compact fills: a later
\* element with the same ID overwrites an earlier one
IdToXPath(body) ==
  LET es == Entries(body)
  IN  [id \in {es[k].id : k \in 1..Len(es)} |->
         _build_xpath_to(body, LastWith(es, id).path)]

\* word_indexer.extract_structure_compact
extract_structure_compact(body, order) ==
  LET es    == Entries(body)
      lines == [k \in 1..Len(es) |->
                  _index_cell(NodeAt(body, es[k].path), es[k].id, order)]
  IN  [compact_text |-> lines,
       id_to_xpath |-> IdToXPath(body),
       complex_elements |->
         LET cx == SelectSeq(lines, LAMBDA l : l.complex # NoComplex)
         IN  [k \in 1..Len(cx) |-> cx[k].id]]

(***************************************************************************)
(* Location validation (word_location_validator, xml_snippet_matching).    *)
(*                                                                         *)
(* A reference string is [form, id, roots]: form "id" is a string of the   *)
(* shape T1-R2-C2 / P5 (id = <<"T", t, r, c>> or <<"P", n, 0, 0>>); the    *)
(* other forms are markup: "declared" carries its own namespace            *)
(* declarations, "prefixed" uses the w: prefix without declaring it,       *)
(* "malformed" is not well-formed even inside the wrapper; roots are the   *)
(* top-level elements the string contains (none for plain text).           *)
(***************************************************************************)
NoId == <<"", 0, 0, 0>>

\* ELEMENT_ID_RE / TABLE_CELL_RE
_is_element_id(snippet) == snippet.form = "id" /\ snippet.id[1] \in {"T", "P"}
TABLE_CELL_RE(element_id) == element_id[1] = "T"

NoElem == Node("#none", NoAttr, <<>>, <<>>)

\* xml_snippet_matching.parse_snippet: etree.fromstring, then the wrapped
\* retry whose first child is returned; wrapper_elem[0] raises IndexError
\* when the wrapped string holds no element
parse_snippet(snippet) ==
  IF snippet.form = "declared" /\ Len(snippet.roots) = 1
       /\ snippet.roots[1].tail = <<>>
    THEN [status |-> "elem", elem |-> snippet.roots[1]]
  ELSE IF snippet.form = "malformed" THEN [status |-> "none", elem |-> NoElem]
  ELSE IF snippet.roots = <<>> THEN [status |-> "raise", elem |-> NoElem]
  ELSE [status |-> "elem", elem |-> snippet.roots[1]]

\* xml_snippet_matching._elements_structurally_equal
RECURSIVE _elements_structurally_equal(_, _)
_elements_structurally_equal(a, b) ==
  /\ a.tag = b.tag
  /\ AttrSet(a) = AttrSet(b)
  /\ Strip(a.text) = Strip(b.text)
  /\ Strip(a.tail) = Strip(b.tail)
  /\ Len(a.kids) = Len(b.kids)
  /\ \A i \in 1..Len(a.kids) : _elements_structurally_equal(a.kids[i], b.kids[i])

\* the elements of the body that find_snippet_in_body accepts, document order
SnippetMatches(body, elem) ==
  SelectSeq(IterTag(body, elem.tag),
            LAMBDA p : _elements_structurally_equal(NodeAt(body, p), elem))

\* xml_snippet_matching.find_snippet_in_body (for a snippet that parses)
find_snippet_in_body(body, elem) ==
  LET ms == SnippetMatches(body, elem)
  IN  [k \in 1..Len(ms) |-> _build_xpath(body, ms[k])]

MaxContextChars == 100
MaxPreviewChars == 60

\* word_fields._get_context_text
_get_context_text(element) == Truncate(JoinSpace(TextParts(element)), MaxContextChars)

NoWarning == [on |-> FALSE, id |-> NoId, preview |-> <<>>, suggestion |-> NoId]

\* word_location_validator._suggest_answer_cell
_suggest_answer_cell(element_id, id_to_xpath) ==
  LET candidate == <<"T", element_id[2], element_id[3], element_id[4] + 1>>
  IN  IF candidate \in DOMAIN id_to_xpath THEN candidate ELSE NoId

\* word_location_validator._check_question_cell_warning; found = FALSE is
\* element = None
_check_question_cell_warning(element_id, found, element, id_to_xpath) ==
  IF ~found THEN NoWarning
  ELSE IF ~TABLE_CELL_RE(element_id) THEN NoWarning
  ELSE IF is_answer_target(get_text(element)) THEN NoWarning
  ELSE [on |-> TRUE, id |-> element_id,
        preview |-> Truncate(get_text(element), MaxPreviewChars),
        suggestion |-> _suggest_answer_cell(element_id, id_to_xpath)]

\* a ValidatedLocation; context is the pair (warning, text) that the code
\* joins as f"{warning}\n{context}", count the N of "Snippet matched N"
NoContext == [warning |-> NoWarning, text |-> <<>>, count |-> 0]

ValidatedLocation(status, has_xpath, xp, context) ==
  [status |-> status, has_xpath |-> has_xpath, xpath |-> xp, context |-> context]

\* a mutant: the warning replaces the context
JoinWarningOnly(warning, text) == [warning |-> warning, text |-> <<>>, count |-> 0]

\* context = f"{warning}\n{context}" if context else warning
JoinWarning(warning, text) == [warning |-> warning, text |-> text, count |-> 0]

\* word_location_validator._validate_element_id
_validate_element_id(loc, id_to_xpath, body) ==
  IF loc.id \notin DOMAIN id_to_xpath
    THEN ValidatedLocation("not_found", FALSE, <<>>, NoContext)
  ELSE
    LET xp      == id_to_xpath[loc.id]
        matched == xpath(body, xp)
        found   == matched # <<>>
        element == IF found THEN NodeAt(body, matched[1]) ELSE NoElem
        context == IF found THEN _get_context_text(element) ELSE <<>>
        warning == _check_question_cell_warning(loc.id, found, element, id_to_xpath)
    IN  ValidatedLocation("matched", TRUE, xp,
          IF warning.on THEN JoinWarning(warning, context)
          ELSE [warning |-> NoWarning, text |-> context, count |-> 0])

\* word_location_validator._validate_snippet (for a snippet that parses and
\* whose single match is not addressed by "./")
_validate_snippet(elem, body) ==
  LET xpaths == find_snippet_in_body(body, elem)
  IN  IF Len(xpaths) = 0 THEN ValidatedLocation("not_found", FALSE, <<>>, NoContext)
      ELSE IF Len(xpaths) = 1 THEN
        LET matched == xpath(body, xpaths[1])
        IN  ValidatedLocation("matched", TRUE, xpaths[1],
              [warning |-> NoWarning,
               text |-> IF matched # <<>>
                        THEN _get_context_text(NodeAt(body, matched[1])) ELSE <<>>,
               count |-> 0])
      ELSE ValidatedLocation("ambiguous", FALSE, <<>>,
             [warning |-> NoWarning, text |-> <<>>, count |-> Len(xpaths)])

\* does validating this one location raise?  parse_snippet's IndexError, or
\* body_root.xpath("./") for a snippet equal to the whole body
LocationRaises(loc, body) ==
  /\ ~_is_element_id(loc)
  /\ LET ps == parse_snippet(loc) IN
       \/ ps.status = "raise"
       \/ /\ ps.status = "elem"
          /\ LET xpaths == find_snippet_in_body(body, ps.elem)
             IN  Len(xpaths) = 1 /\ XPathRaises(xpaths[1])

ValidateOne(loc, id_to_xpath, body) ==
  IF _is_element_id(loc) THEN _validate_element_id(loc, id_to_xpath, body)
  ELSE IF parse_snippet(loc).status = "none"
    THEN ValidatedLocation("not_found", FALSE, <<>>, NoContext)
  ELSE _validate_snippet(parse_snippet(loc).elem, body)

\* word_location_validator.validate_locations: one result per location, or
\* the exception of the first location that raises
validate_locations(body, locations) ==
  LET id_to_xpath == IdToXPath(body)
  IN  IF \E k \in 1..Len(locations) : LocationRaises(locations[k], body)
      THEN [raised |-> TRUE, validated |-> <<>>]
      ELSE [raised |-> FALSE,
            validated |-> [k \in 1..Len(locations) |->
                             ValidateOne(locations[k], id_to_xpath, body)]]

(***************************************************************************)
(* Writing (word_writer, xml_formatting).                                  *)
(***************************************************************************)
\* word_writer._XPATH_SAFE_RE
XPathSafeNames ==
  {"w:body", "w:tbl", "w:tr", "w:tc", "w:p", "w:r", "w:sdt", "w:sdtContent"}

_XPATH_SAFE_RE(xp) ==
  Len(xp) >= 1 /\ \A k \in 1..Len(xp) : xp[k].name \in XPathSafeNames

\* word_writer._validate_xpath: TRUE when it returns, FALSE when it raises
_validate_xpath(xp) == _XPATH_SAFE_RE(xp)

RECURSIVE ReplaceAtFirst(_, _, _), ReplaceAt(_, _, _)
\* a mutant: the new node lands on the first child of the target's parent
ReplaceAtFirst(root, path, new) ==
  IF path = <<>> THEN new
  ELSE IF Len(path) = 1 THEN [root EXCEPT !.kids[1] = new]
  ELSE [root EXCEPT !.kids[Head(path)] = ReplaceAtFirst(@, Tail(path), new)]

\* the tree with the node at path replaced
ReplaceAt(root, path, new) ==
  IF path = <<>> THEN new
  ELSE [root EXCEPT !.kids[Head(path)] = ReplaceAt(@, Tail(path), new)]

\* xml_formatting._find_run_properties: the w:rPr the formatting is read from
FirstChild(n, tag) == n.kids[Head(FindAll(n, tag))]

_find_run_properties(elem) ==
  IF FindAll(elem, "w:rPr") # <<>>
    THEN [found |-> TRUE, rpr |-> FirstChild(elem, "w:rPr")]
  ELSE IF FindDesc(elem, "w:r") /\ FindAll(FirstDesc(elem, "w:r"), "w:rPr") # <<>>
    THEN [found |-> TRUE, rpr |-> FirstChild(FirstDesc(elem, "w:r"), "w:rPr")]
  ELSE IF FindAll(elem, "w:pPr") # <<>>
          /\ FindAll(FirstChild(elem, "w:pPr"), "w:rPr") # <<>>
    THEN [found |-> TRUE, rpr |-> FirstChild(FirstChild(elem, "w:pPr"), "w:rPr")]
  ELSE [found |-> FALSE, rpr |-> NoElem]

\* the formatting of the target: the bold / italic flags of its run properties
extract_formatting_from_element(target) ==
  LET rp == _find_run_properties(target)
  IN  IF ~rp.found THEN {}
      ELSE {f \in {"bold", "italic"} :
              \/ f = "bold" /\ FindAll(rp.rpr, "w:b") # <<>>
              \/ f = "italic" /\ FindAll(rp.rpr, "w:i") # <<>>}

\* a mutant: the text loses its leading and trailing spaces
build_run_xml_stripped(text, formatting) ==
  [form |-> "declared", id |-> NoId,
   roots |-> <<Node("w:r", NoAttr, <<>>,
                    (IF formatting # {}
                     THEN <<Node("w:rPr", NoAttr, <<>>,
                                 (IF "bold" \in formatting
                                  THEN <<Node("w:b", NoAttr, <<>>, <<>>)>> ELSE <<>>)
                                 \o (IF "italic" \in formatting
                                     THEN <<Node("w:i", NoAttr, <<>>, <<>>)>> ELSE <<>>))>>
                     ELSE <<>>)
                    \o <<Node("w:t", NoAttr, Strip(text), <<>>)>>)>>]

\* xml_formatting.build_run_xml: <w:r>[<w:rPr>..</w:rPr>]<w:t>text</w:t></w:r>
build_run_xml(text, formatting) ==
  LET rpr == Node("w:rPr", NoAttr, <<>>,
               (IF "bold" \in formatting THEN <<Node("w:b", NoAttr, <<>>, <<>>)>> ELSE <<>>)
               \o (IF "italic" \in formatting THEN <<Node("w:i", NoAttr, <<>>, <<>>)>> ELSE <<>>))
      t   == Node("w:t",
               IF text # <<>> /\ (text[1] = " " \/ text[Len(text)] = " ")
               THEN <<<<"xml:space", "preserve">>>> ELSE NoAttr,
               text, <<>>)
  IN  [form |-> "declared", id |-> NoId,
       roots |-> <<Node("w:r", NoAttr, <<>>,
                        (IF formatting # {} THEN <<rpr>> ELSE <<>>) \o <<t>>)>>]

\* word_writer._build_insertion_xml_for_answer_text
_build_insertion_xml_for_answer_text(target, answer_text) ==
  build_run_xml(answer_text, extract_formatting_from_element(target))

\* the result of an operation on the target: the new target, or an exception
Done(target) == [raised |-> "", target |-> target]
Raised(exc) == [raised |-> exc, target |-> NoElem]

PreserveTags == {"w:pPr", "w:tcPr"}

\* a mutant: every child of the target is removed, property nodes included
_replace_content_clearing(target, insertion_xml) ==
  IF parse_snippet(insertion_xml).status = "raise" THEN Raised("IndexError")
  ELSE IF parse_snippet(insertion_xml).status = "none"
    THEN Done([target EXCEPT !.kids = <<>>, !.text = <<>>])
  ELSE IF target.tag = "w:tc" /\ parse_snippet(insertion_xml).elem.tag = "w:r"
    THEN Done([target EXCEPT
                 !.kids = <<Node("w:p", NoAttr, <<>>,
                                 <<parse_snippet(insertion_xml).elem>>)>>,
                 !.text = <<>>])
  ELSE Done([target EXCEPT !.kids = <<parse_snippet(insertion_xml).elem>>,
                           !.text = <<>>])

\* a mutant: the new element takes the place of the target itself
_replace_content_in_place(target, insertion_xml) ==
  IF parse_snippet(insertion_xml).status = "raise" THEN Raised("IndexError")
  ELSE IF parse_snippet(insertion_xml).status = "none"
    THEN Done([target EXCEPT
                 !.kids = SelectSeq(target.kids, LAMBDA c : c.tag \in PreserveTags),
                 !.text = <<>>])
  ELSE Done(parse_snippet(insertion_xml).elem)

\* a mutant: the new element is appended to the target as it is
_replace_content_unwrapped(target, insertion_xml) ==
  IF parse_snippet(insertion_xml).status = "raise" THEN Raised("IndexError")
  ELSE IF parse_snippet(insertion_xml).status = "none"
    THEN Done([target EXCEPT
                 !.kids = SelectSeq(target.kids, LAMBDA c : c.tag \in PreserveTags),
                 !.text = <<>>])
  ELSE Done([target EXCEPT
               !.kids = Append(SelectSeq(target.kids,
                                         LAMBDA c : c.tag \in PreserveTags),
                               parse_snippet(insertion_xml).elem),
               !.text = <<>>])

\* word_writer._replace_content
_replace_content(target, insertion_xml) ==
  LET kept    == SelectSeq(target.kids, LAMBDA c : c.tag \in PreserveTags)
      cleared == [target EXCEPT !.kids = kept, !.text = <<>>]
      ps      == parse_snippet(insertion_xml)
  IN  IF ps.status = "raise" THEN Raised("IndexError")
      ELSE IF ps.status = "none" THEN Done(cleared)
      ELSE IF target.tag = "w:tc" /\ ps.elem.tag = "w:r"
        THEN Done([cleared EXCEPT
                     !.kids = Append(kept, Node("w:p", NoAttr, <<>>, <<ps.elem>>))])
      ELSE Done([cleared EXCEPT !.kids = Append(kept, ps.elem)])

\* word_writer._append_content
_append_content(target, insertion_xml) ==
  LET ps == parse_snippet(insertion_xml)
  IN  IF ps.status = "raise" THEN Raised("IndexError")
      ELSE IF ps.status = "none" THEN Done(target)
      ELSE Done([target EXCEPT !.kids = Append(@, ps.elem)])

\* pattern.sub(new_text, text) for \[Enter[^\]]*\] : every occurrence
RECURSIVE SubBracket(_, _, _)
SubBracket(s, new, i) ==
  IF i > Len(s) THEN <<>>
  ELSE IF BracketAt(s, i)
    THEN LET j == CHOOSE j \in (i + 2)..Len(s) :
                    s[j] = "]" /\ \A k \in (i + 2)..(j - 1) : s[k] # "]"
         IN  new \o SubBracket(s, new, j + 1)
  ELSE <<s[i]>> \o SubBracket(s, new, i + 1)

\* pattern.sub(new_text, text) for _{3,} : every maximal run of underscores
RECURSIVE RunEnd(_, _)
RunEnd(s, i) == IF i + 1 <= Len(s) /\ s[i + 1] = "_" THEN RunEnd(s, i + 1) ELSE i

RECURSIVE SubUnderscores(_, _, _)
SubUnderscores(s, new, i) ==
  IF i > Len(s) THEN <<>>
  ELSE IF UnderscoresAt(s, i) THEN new \o SubUnderscores(s, new, RunEnd(s, i) + 1)
  ELSE <<s[i]>> \o SubUnderscores(s, new, i + 1)

HasBracket(s) == \E i \in 1..Len(s) : BracketAt(s, i)
HasUnderscores(s) == \E i \in 1..Len(s) : UnderscoresAt(s, i)

\* word_writer._replace_placeholder (placeholder = None)
_replace_placeholder(target, insertion_xml) ==
  LET ps == parse_snippet(insertion_xml)
  IN  IF ps.status = "raise" THEN Raised("IndexError")
      ELSE IF ps.status = "none" THEN Done(target)
      ELSE
        LET new_text == IF FindDesc(ps.elem, "w:t")
                        THEN FirstDesc(ps.elem, "w:t").text ELSE <<>>
            ts   == SelectSeq(IterTag(target, "w:t"),
                      LAMBDA p : LET t == NodeAt(target, p).text
                                 IN  t # <<>> /\ (HasBracket(t) \/ HasUnderscores(t)))
        IN  IF ts = <<>> THEN Done(target)
            ELSE LET old == NodeAt(target, Head(ts))
                     txt == IF HasBracket(old.text)
                            THEN SubBracket(old.text, new_text, 1)
                            ELSE SubUnderscores(old.text, new_text, 1)
                 IN  Done(ReplaceAt(target, Head(ts), [old EXCEPT !.text = txt]))

\* an answer: pair_id is a Stable ID or another key (a tuple that is no ID);
\* xpath / mode / answer_text / insertion_xml may be left out
NoSnippet == [form |-> "none", id |-> NoId, roots |-> <<>>]

\* the two ValueErrors of _apply_answer, by their messages
PatternError == "ValueError: XPath does not match expected pattern"
NoMatchError == "ValueError: XPath did not match any element"

\* a mutant: the locator is resolved without the grammar check
_apply_answer_unchecked(body, answer) ==
  IF XPathRaises(answer.xpath) THEN [raised |-> "XPathEvalError", body |-> body]
  ELSE
    LET matched == xpath(body, answer.xpath)
    IN  IF matched = <<>> THEN [raised |-> NoMatchError, body |-> body]
        ELSE
          LET target == NodeAt(body, matched[1])
              insertion_xml ==
                IF Strip(answer.answer_text) # <<>>
                THEN _build_insertion_xml_for_answer_text(target, answer.answer_text)
                ELSE answer.insertion_xml
              out == CASE answer.mode = "replace_content" ->
                            _replace_content(target, insertion_xml)
                       [] answer.mode = "append" ->
                            _append_content(target, insertion_xml)
                       [] answer.mode = "replace_placeholder" ->
                            _replace_placeholder(target, insertion_xml)
          IN  IF out.raised # "" THEN [raised |-> out.raised, body |-> body]
              ELSE [raised |-> "", body |-> ReplaceAt(body, matched[1], out.target)]

\* word_writer._apply_answer: the new body, or the exception
_apply_answer(body, answer) ==
  IF ~_validate_xpath(answer.xpath) THEN [raised |-> PatternError, body |-> body]
  ELSE
    LET matched == xpath(body, answer.xpath)
    IN  IF matched = <<>> THEN [raised |-> NoMatchError, body |-> body]
        ELSE
          LET target == NodeAt(body, matched[1])
              insertion_xml ==
                IF Strip(answer.answer_text) # <<>>
                THEN _build_insertion_xml_for_answer_text(target, answer.answer_text)
                ELSE answer.insertion_xml
              out == CASE answer.mode = "replace_content" ->
                            _replace_content(target, insertion_xml)
                       [] answer.mode = "append" ->
                            _append_content(target, insertion_xml)
                       [] answer.mode = "replace_placeholder" ->
                            _replace_placeholder(target, insertion_xml)
          IN  IF out.raised # "" THEN [raised |-> out.raised, body |-> body]
              ELSE [raised |-> "", body |-> ReplaceAt(body, matched[1], out.target)]

\* a mutant: an answer that raises is left out and the rest is applied
RECURSIVE ApplyAllSkipping(_, _)
ApplyAllSkipping(body, answers) ==
  IF answers = <<>> THEN [raised |-> "", body |-> body]
  ELSE ApplyAllSkipping(
         IF _apply_answer(body, Head(answers)).raised # "" THEN body
         ELSE _apply_answer(body, Head(answers)).body,
         Tail(answers))

\* word_writer.write_answers: the answers applied in order; the first
\* exception ends the call and no output is produced
RECURSIVE ApplyAll(_, _)
ApplyAll(body, answers) ==
  IF answers = <<>> THEN [raised |-> "", body |-> body]
  ELSE LET one == _apply_answer(body, Head(answers))
       IN  IF one.raised # "" THEN one ELSE ApplyAll(one.body, Tail(answers))

handler_write_answers(body, answers) == ApplyAll(body, answers)

(***************************************************************************)
(* The write_answers tool (tools_write, tool_errors, pair_id_resolver).    *)
(***************************************************************************)
\* tool_errors._is_provided
_is_provided(text) == Strip(text) # <<>>

HasXml(a) == a.insertion_xml.form # "none"

\* pair_id_resolver.resolve_if_needed / resolve_pair_ids: the pair_ids of the
\* batch that are Stable IDs of the document, with their locators
resolve_if_needed(answer_dicts, body) ==
  LET needs_resolution ==
        \E k \in 1..Len(answer_dicts) :
          ~answer_dicts[k].has_xpath /\ _is_provided(answer_dicts[k].answer_text)
      needs_cross_check ==
        \E k \in 1..Len(answer_dicts) : answer_dicts[k].has_xpath
      m == IdToXPath(body)
  IN  IF ~(needs_resolution \/ needs_cross_check) THEN <<>>
      ELSE [id \in {answer_dicts[k].pair_id : k \in 1..Len(answer_dicts)}
                     \cap DOMAIN m |-> m[id]]

\* pair_id_resolver.cross_check_xpaths: the pair_ids warned about
cross_check_xpaths(answer_dicts, resolved) ==
  SelectSeq([k \in 1..Len(answer_dicts) |-> answer_dicts[k].pair_id],
            LAMBDA id : \E k \in 1..Len(answer_dicts) :
               /\ answer_dicts[k].pair_id = id
               /\ answer_dicts[k].has_xpath
               /\ id \in DOMAIN resolved
               /\ resolved[id] # answer_dicts[k].xpath)

\* tool_errors._build_word_payloads: does the batch fail validation?
PayloadError(a, resolved) ==
  \/ HasXml(a) /\ ~_is_provided(a.answer_text) /\ (~a.has_xpath \/ a.mode = "none")
  \/ _is_provided(a.answer_text) = HasXml(a)
  \/ ~a.has_xpath /\ _is_provided(a.answer_text) /\ a.pair_id \notin DOMAIN resolved

\* tool_errors._build_word_payloads: the AnswerPayload of one answer
AnswerPayload(a, resolved) ==
  [pair_id |-> a.pair_id,
   xpath |-> IF a.pair_id \in DOMAIN resolved THEN resolved[a.pair_id] ELSE a.xpath,
   insertion_xml |-> a.insertion_xml,
   answer_text |-> a.answer_text,
   mode |-> IF a.mode = "none" THEN "replace_content" ELSE a.mode]

\* str.lower on the letters that occur
Lower(c) ==
  CASE c = "A" -> "a" [] c = "B" -> "b" [] c = "Y" -> "y" [] c = "E" -> "e"
    [] c = "S" -> "s" [] OTHER -> c

LowerStr(s) == [k \in 1..Len(s) |-> Lower(s[k])]

\* str.upper on the letters that occur
Upper(c) ==
  CASE c = "s" -> "S" [] c = "k" -> "K" [] c = "i" -> "I" [] c = "p" -> "P"
    [] OTHER -> c

\* tools_write._is_skip
_is_skip(payload) ==
  LET t == Strip(payload.answer_text)
  IN  [k \in 1..Len(t) |-> Upper(t[k])] = <<"S", "K", "I", "P">>

(***************************************************************************)
(* Dry run (word_dry_run).                                                 *)
(***************************************************************************)
\* word_dry_run._describe_write
_describe_write(answer) ==
  IF Strip(answer.answer_text) # <<>> THEN [kind |-> "text", text |-> answer.answer_text]
  ELSE IF answer.insertion_xml.form # "none" THEN [kind |-> "xml", text |-> <<>>]
  ELSE [kind |-> "empty", text |-> <<>>]

\* a mutant: a target counts as filled whenever its text is not the empty
\* string
_preview_single_unstripped(body, answer) ==
  LET matched == xpath(body, answer.xpath)
  IN  IF matched = <<>>
      THEN [pair_id |-> answer.pair_id, xpath |-> answer.xpath,
            current_text |-> <<>>, would_write |-> _describe_write(answer),
            mode |-> "", status |-> "error", message |-> <<>>]
      ELSE
        LET current == get_text(NodeAt(body, matched[1]))
        IN  [pair_id |-> answer.pair_id, xpath |-> answer.xpath,
             current_text |-> current, would_write |-> _describe_write(answer),
             mode |-> answer.mode,
             status |-> IF current # <<>> THEN "warning" ELSE "ok",
             message |-> IF current # <<>> THEN Truncate(current, MaxPreviewChars)
                         ELSE <<>>]

\* word_dry_run._preview_single (for a locator that evaluates)
_preview_single(body, answer) ==
  LET matched == xpath(body, answer.xpath)
  IN  IF matched = <<>>
      THEN [pair_id |-> answer.pair_id, xpath |-> answer.xpath,
            current_text |-> <<>>, would_write |-> _describe_write(answer),
            mode |-> "", status |-> "error", message |-> <<>>]
      ELSE
        LET current     == get_text(NodeAt(body, matched[1]))
            has_content == Strip(current) # <<>>
        IN  [pair_id |-> answer.pair_id, xpath |-> answer.xpath,
             current_text |-> current, would_write |-> _describe_write(answer),
             mode |-> answer.mode,
             status |-> IF has_content THEN "warning" ELSE "ok",
             message |-> IF has_content THEN Truncate(current, MaxPreviewChars)
                         ELSE <<>>]

\* word_dry_run.preview_answers: one preview per answer, or the exception of
\* body.xpath on a locator that does not evaluate
preview_answers(body, answers) ==
  IF \E k \in 1..Len(answers) : XPathRaises(answers[k].xpath)
  THEN [raised |-> "XPathEvalError", previews |-> <<>>]
  ELSE [raised |-> "",
        previews |-> [k \in 1..Len(answers) |-> _preview_single(body, answers[k])]]

SkippedPreview(p) ==
  [pair_id |-> p.pair_id, xpath |-> p.xpath, current_text |-> <<>>,
   would_write |-> [kind |-> "empty", text |-> <<>>],
   mode |-> "", status |-> "skipped", message |-> <<>>]

\* the response of the tool: output bytes (the new body) or preview records
NoResponse ==
  [raised |-> "", has_bytes |-> FALSE, body |-> NoElem, preview |-> <<>>,
   warnings |-> <<>>, written |-> 0, skipped |-> 0]

\* tools_write._dry_run_preview and the dry-run branch: the previews of the
\* answers to write, then those of the skipped ones
PreviewResponse(pv, to_write, skipped) ==
  IF pv.raised # "" THEN [NoResponse EXCEPT !.raised = pv.raised]
  ELSE [NoResponse EXCEPT
          !.preview = pv.previews
             \o [k \in 1..Len(skipped) |-> SkippedPreview(skipped[k])],
          !.written = Len(to_write), !.skipped = Len(skipped)]

\* tools_write.write_answers, the write branch: the response around the
\* result out of the handler
WriteResponse(out, to_write, skipped, warnings) ==
  IF out.raised # "" THEN [NoResponse EXCEPT !.raised = out.raised]
  ELSE [NoResponse EXCEPT
          !.has_bytes = TRUE, !.body = out.body, !.warnings = warnings,
          !.written = Len(to_write), !.skipped = Len(skipped)]

\* a mutant: the dry_run flag is ignored and the answers are written
RespondIgnoringDryRun(body, to_write, skipped, warnings, dry_run) ==
  WriteResponse(IF to_write # <<>> THEN handler_write_answers(body, to_write)
                ELSE [raised |-> "", body |-> body],
                to_write, skipped, warnings)

\* tools_write.write_answers, after the payloads are built: the dry-run
\* branch returns the preview, the other branch the written document
Respond(body, to_write, skipped, warnings, dry_run) ==
  IF dry_run
  THEN PreviewResponse(preview_answers(body, to_write), to_write, skipped)
  ELSE WriteResponse(IF to_write # <<>> THEN handler_write_answers(body, to_write)
                     ELSE [raised |-> "", body |-> body],
                     to_write, skipped, warnings)

\* tools_write.write_answers
tool_write_answers(body, answer_dicts, dry_run) ==
  LET resolved == resolve_if_needed(answer_dicts, body)
  IN  IF \E k \in 1..Len(answer_dicts) : PayloadError(answer_dicts[k], resolved)
      THEN [NoResponse EXCEPT !.raised = "ValueError"]
      ELSE
        LET payloads == [k \in 1..Len(answer_dicts) |->
                           AnswerPayload(answer_dicts[k], resolved)]
        IN  Respond(body, SelectSeq(payloads, LAMBDA q : ~_is_skip(q)),
                    SelectSeq(payloads, _is_skip),
                    cross_check_xpaths(answer_dicts, resolved), dry_run)

(***************************************************************************)
(* Structural check (word_verifier).                                       *)
(***************************************************************************)
\* word_verifier._check_structural_issues: the issues, in report order
_check_structural_issues(body) ==
  LET tcs == IterTag(body, "w:tc")
      Of(p) ==
        LET tc == NodeAt(body, p)
            bare == FindAll(tc, "w:r")
        IN  [k \in 1..Len(bare) |-> [issue |-> "bare_run", tc |-> p]]
            \o (IF FindAll(tc, "w:p") = <<>>
                THEN <<[issue |-> "no_paragraph", tc |-> p]>> ELSE <<>>)
  IN  Flatten([k \in 1..Len(tcs) |-> Of(tcs[k])])

\* word_verifier._extract_text: the w:t texts joined with one space
_extract_text(element) == JoinSpace(TextParts(element))

\* Python's  a in b  on strings
IsSubstring(a, b) ==
  \E i \in 0..(Len(b) - Len(a)) : SubSeq(b, i + 1, i + Len(a)) = a

ExpectedAnswer(pair_id, xp, expected_text) ==
  [pair_id |-> pair_id, xpath |-> xp, expected_text |-> expected_text]

ContentResult(pair_id, status, expected, actual) ==
  [pair_id |-> pair_id, status |-> status, expected |-> expected,
   actual |-> actual]

\* word_verifier._verify_content, the loop body (for a locator that
\* evaluates)
VerifyOne(body, answer) ==
  IF xpath(body, answer.xpath) = <<>>
  THEN ContentResult(answer.pair_id, "missing", answer.expected_text, <<>>)
  ELSE ContentResult(
         answer.pair_id,
         IF IsSubstring(answer.expected_text,
                        _extract_text(NodeAt(body, xpath(body, answer.xpath)[1])))
         THEN "matched" ELSE "mismatched",
         answer.expected_text,
         _extract_text(NodeAt(body, xpath(body, answer.xpath)[1])))

\* word_verifier._verify_content: one result per expected answer, or the
\* exception of body.xpath on a locator that does not evaluate
_verify_content(body, expected_answers) ==
  IF \E k \in 1..Len(expected_answers) : XPathRaises(expected_answers[k].xpath)
  THEN [raised |-> "XPathEvalError", results |-> <<>>]
  ELSE [raised |-> "",
        results |-> [k \in 1..Len(expected_answers) |->
                       VerifyOne(body, expected_answers[k])]]

CountStatus(results, status) ==
  Cardinality({k \in 1..Len(results) : results[k].status = status})

\* the report around the content results cr
VerificationReport(body, expected_answers, cr) ==
  [raised |-> cr.raised,
   structural_issues |-> IF cr.raised = "" THEN _check_structural_issues(body) ELSE <<>>,
   content_results |-> cr.results,
   summary |-> [total |-> Len(expected_answers),
                matched |-> CountStatus(cr.results, "matched"),
                mismatched |-> CountStatus(cr.results, "mismatched"),
                missing |-> CountStatus(cr.results, "missing")]]

\* word_verifier.verify_output
verify_output(body, expected_answers) ==
  VerificationReport(body, expected_answers,
                     _verify_content(body, expected_answers))

(***************************************************************************)
(* The documents.                                                          *)
(***************************************************************************)
T(text) == Node("w:t", NoAttr, text, <<>>)
R(text) == Node("w:r", NoAttr, <<>>, <<T(text)>>)
BoldR(text) ==
  Node("w:r", NoAttr, <<>>,
       <<Node("w:rPr", NoAttr, <<>>, <<Node("w:b", NoAttr, <<>>, <<>>)>>), T(text)>>)
P(kids) == Node("w:p", NoAttr, <<>>, kids)
TcPr ==
  Node("w:tcPr", NoAttr, <<>>, <<Node("w:tcW", <<<<"w:w", "50">>>>, <<>>, <<>>)>>)
TblPr == Node("w:tblPr", NoAttr, <<>>, <<>>)
SectPr == Node("w:sectPr", NoAttr, <<>>, <<>>)

\* a cell: Q a bold question text, E empty, H a ___ placeholder, W a blank,
\* D two ___ placeholders in one w:t
Cell(kind) ==
  Node("w:tc", NoAttr, <<>>,
       <<TcPr, CASE kind = "Q" -> P(<<BoldR(<<"a">>)>>)
                 [] kind = "E" -> P(<<>>)
                 [] kind = "W" -> P(<<R(<<" ">>)>>)
                 [] kind = "D" -> P(<<R(<<"_", "_", "_", " ", "_", "_", "_">>)>>)
                 [] kind = "H" -> P(<<R(<<"_", "_", "_">>)>>)>>)

RowKinds == {<<"Q", "E">>, <<"Q", "H">>, <<"Q", "Q">>}

Row(kinds) == Node("w:tr", NoAttr, <<>>, [c \in 1..Len(kinds) |-> Cell(kinds[c])])

Table(rows) ==
  Node("w:tbl", NoAttr, <<>>, <<TblPr>> \o [r \in 1..Len(rows) |-> Row(rows[r])])

\* a paragraph with a bracket placeholder: a [Enter]
Hold ==
  P(<<Node("w:pPr", NoAttr, <<>>, <<>>), R(<<"a", " ", "[", "E", "]">>)>>)

\* a paragraph with a content control, a form field and an equation
Cplx ==
  P(<<Node("w:sdt", NoAttr, <<>>,
           <<Node("w:sdtContent", NoAttr, <<>>, <<R(<<"a">>)>>)>>),
      Node("w:r", NoAttr, <<>>,
           <<Node("w:fldChar", <<<<"w:fldCharType", "begin">>>>, <<>>, <<>>)>>),
      Node("{m}oMath", NoAttr, <<>>, <<>>)>>)

Body(blocks) == Node("w:body", NoAttr, <<>>, blocks \o <<SectPr>>)

RowSeqs == UNION {[1..n -> RowKinds] : n \in 1..MaxRows}

\* a questionnaire with two paragraphs and two tables
Full ==
  Body(<<Hold, Table(<<<<"Q", "E">>, <<"Q", "H">>>>), Cplx, Table(<<<<"Q", "E">>>>)>>)

\* the questionnaires the read-only tools are called on
Forms ==
  {Body(<<Table(rows)>>) : rows \in RowSeqs}
  \cup {Body(<<Hold, Table(<<<<"Q", "Q">>>>)>>), Full,
        Body(<<Table(<<<<"Q", "W">>>>)>>)}

\* the questionnaires the writes start from
SeedForms ==
  {Body(<<Hold, Table(<<<<"Q", "E">>>>)>>), Body(<<Table(<<<<"Q", "H">>>>)>>),
   Body(<<Table(<<<<"Q", "D">>>>)>>)}

(***************************************************************************)
(* The inputs of the calls.                                                *)
(***************************************************************************)
IdRef(id) == [form |-> "id", id |-> id, roots |-> <<>>]
Declared(n) == [form |-> "declared", id |-> NoId, roots |-> <<n>>]
Prefixed(roots) == [form |-> "prefixed", id |-> NoId, roots |-> roots]
Malformed == [form |-> "malformed", id |-> NoId, roots |-> <<>>]

Ids(body) == DOMAIN IdToXPath(body)

AbsentIds == {<<"T", 9, 1, 1>>, <<"P", 9, 0, 0>>}

Range(f) == {f[x] : x \in DOMAIN f}

\* the references a caller resolves: Stable IDs (of the document or not),
\* every element of the document as a fragment, and fragments that match
\* nothing, hold no element, hold two elements or carry trailing text
Refs(body) ==
  {IdRef(id) : id \in Ids(body) \cup AbsentIds}
  \cup {Declared(NodeAt(body, p)) : p \in Range(IterPaths(body, <<>>))}
  \cup {Prefixed(<<R(<<"b">>)>>), Prefixed(<<>>), Malformed,
        Prefixed(<<Cell("E"), Cell("Q")>>),
        Declared([Hold EXCEPT !.tail = <<"x">>])}

\* the references of a two-item batch: a Stable ID of the document, one
\* of no document, a fragment that is plain text and one that is not XML
BatchRefs ==
  {IdRef(<<"T", 1, 1, 1>>), IdRef(<<"T", 9, 1, 1>>), Prefixed(<<>>), Malformed}

\* a pair_id that is not a Stable ID
Key == <<"q", 1, 0, 0>>

Ans(pair_id, has_xpath, xp, mode, answer_text, insertion_xml) ==
  [pair_id |-> pair_id, has_xpath |-> has_xpath, xpath |-> xp, mode |-> mode,
   answer_text |-> answer_text, insertion_xml |-> insertion_xml]

RunXml == Prefixed(<<R(<<"b">>)>>)
ParaXml == Prefixed(<<P(<<R(<<"b">>)>>)>>)

IdLocators(body) == Range(IdToXPath(body))

\* the locators of the indexed elements and of a paragraph inside them
GoodXPaths(body) ==
  IdLocators(body)
  \cup {Append(xp, [name |-> "w:p", pos |-> 0]) :
          xp \in {x \in IdLocators(body) : x[Len(x)].name = "w:tc"}}

BadXPaths ==
  {<<[name |-> "w:tbl", pos |-> 0], [name |-> "w:tblPr", pos |-> 0]>>,
   <<>>,
   <<[name |-> "w:p", pos |-> 9]>>}

\* answers addressed by Stable ID alone (the locator is resolved by the tool)
ByIdAnswers(body) ==
  {Ans(id, FALSE, <<>>, mode, <<"b">>, NoSnippet) :
     id \in Ids(body) \cup {<<"T", 9, 1, 1>>},
     mode \in {"none", "append", "replace_placeholder"}}

\* answers with pre-built markup, an explicit locator and an explicit mode
ByXPathAnswers(body) ==
  {Ans(Key, TRUE, xp, mode, <<>>, xml) :
     xp \in GoodXPaths(body), mode \in {"replace_content", "append"},
     xml \in {RunXml, ParaXml}}
  \cup {Ans(Key, TRUE, xp, "replace_content", <<>>, Malformed) :
          xp \in IdLocators(body)}
  \cup {Ans(Key, TRUE, xp, "replace_placeholder", <<>>, RunXml) :
          xp \in IdLocators(body)}

\* answers whose locator the write refuses, cannot evaluate or cannot find;
\* an answer whose locator disagrees with its Stable ID; a SKIP answer;
\* answers with neither or both of answer_text and insertion_xml, and one
\* whose markup holds no element
OtherAnswers(body) ==
  {Ans(Key, TRUE, xp, "replace_content", <<>>, RunXml) : xp \in BadXPaths}
  \cup {Ans(<<"T", 1, 1, 2>>, TRUE, xp, "none", <<"b">>, NoSnippet) :
          xp \in {IdToXPath(body)[j] : j \in {<<"T", 1, 1, 1>>} \cap Ids(body)}}
  \cup {Ans(<<"T", 1, 1, 1>>, FALSE, <<>>, "none", <<"s", "k", "i", "p">>, NoSnippet),
        Ans(Key, FALSE, <<>>, "none", <<>>, NoSnippet),
        Ans(Key, TRUE, <<>>, "replace_content", <<"b">>, RunXml),
        Ans(Key, TRUE, <<[name |-> "w:tbl", pos |-> 0]>>, "replace_content", <<>>,
            Prefixed(<<>>))}

\* the answers of a two-answer batch: one by Stable ID, and the ones whose
\* locator is refused, cannot be evaluated or matches nothing
BatchAnswers(body) ==
  {Ans(id, FALSE, <<>>, "none", <<"b">>, NoSnippet) :
     id \in Ids(body) \cap {<<"T", 1, 1, 2>>}}
  \cup {Ans(Key, TRUE, xp, "replace_content", <<>>, RunXml) : xp \in BadXPaths}

\* the answers a caller writes
Answers(body) == ByIdAnswers(body) \cup ByXPathAnswers(body) \cup OtherAnswers(body)

\* the answers a caller previews
DryRunAnswers(body) ==
  {a \in ByIdAnswers(body) : a.mode = "none"} \cup OtherAnswers(body)

(***************************************************************************)
(* The calls.  doc is the document the caller holds, op / arg / res the    *)
(* last call with its input and its result, pre the document before that   *)
(* call, prev the result of the call before it when both were Index calls, *)
(* nWrites the number of writes so far.                                    *)
(***************************************************************************)
Start(forms) ==
  /\ doc \in forms
  /\ op = "init" /\ arg = <<>> /\ res = <<>>
  /\ pre = doc /\ prev = <<>> /\ nWrites = 0

Init == Start(SeedForms)

InitRead == Start(Forms)

\* extract_structure_compact, served by a process with hash seed sd
Index(sd) ==
  /\ op' = "index" /\ arg' = sd
  /\ res' = extract_structure_compact(doc, HashOrder[sd])
  /\ prev' = IF op = "index" THEN <<res>> ELSE <<>>
  /\ pre' = doc
  /\ UNCHANGED <<doc, nWrites>>

\* validate_locations
Validate(locations) ==
  /\ op' = "validate" /\ arg' = locations
  /\ res' = validate_locations(doc, locations)
  /\ prev' = <<>> /\ pre' = doc
  /\ UNCHANGED <<doc, nWrites>>

\* write_answers: the caller goes on with the returned document, if any
CallWrite(answers, dry_run) ==
  \E r \in {tool_write_answers(doc, answers, dry_run)} :
    /\ op' = IF dry_run THEN "dry_run" ELSE "write"
    /\ arg' = answers /\ res' = r
    /\ doc' = IF r.has_bytes THEN r.body ELSE doc
    /\ prev' = <<>> /\ pre' = doc

DryRun(answers) == CallWrite(answers, TRUE) /\ UNCHANGED nWrites

Write(answers) ==
  /\ nWrites < MaxWrites
  /\ CallWrite(answers, FALSE)
  /\ nWrites' = nWrites + 1

Next ==
  \/ \E a \in Answers(doc) : Write(<<a>>)
  \/ \E a, b \in BatchAnswers(doc) : Write(<<a, b>>)

Spec == Init /\ [][Next]_vars

NextRead ==
  \/ \E sd \in Seeds : Index(sd)
  \/ \E loc \in Refs(doc) : Validate(<<loc>>)
  \/ \E a, b \in BatchRefs : Validate(<<a, b>>)
  \/ \E a \in DryRunAnswers(doc) : DryRun(<<a>>)

SpecRead == InitRead /\ [][NextRead]_vars

\* a locator of several elements' worth of text: the first table
TableXPath == <<[name |-> "w:tbl", pos |-> 0]>>

\* the expected answers a caller verifies: at the locators of the indexed
\* elements, at the first table, and at locators that match nothing or do
\* not evaluate; with the text of a question cell in both cases and a text
\* that is nowhere
Expected(body) ==
  {ExpectedAnswer(Key, xp, t) :
     xp \in IdLocators(body) \cup {TableXPath} \cup BadXPaths,
     t \in {<<"a">>, <<"A">>, <<"b">>, <<"a", " ", "_">>}}

\* the expected answers of a two-item batch
BatchExpected(body) ==
  {ExpectedAnswer(Key, xp, <<"a">>) :
     xp \in {IdToXPath(body)[<<"T", 1, 1, 1>>]} \cup BadXPaths}

\* verify_output; prev keeps the write whose output is verified
Verify(expected_answers) ==
  /\ op' = "verify" /\ arg' = expected_answers
  /\ res' = verify_output(doc, expected_answers)
  /\ prev' = IF op = "write" THEN <<[arg |-> arg, pre |-> pre, res |-> res]>>
             ELSE <<>>
  /\ pre' = doc
  /\ UNCHANGED <<doc, nWrites>>

NextVerify ==
  \/ \E e \in Expected(doc) : Verify(<<e>>)
  \/ \E a, b \in BatchExpected(doc) : Verify(<<a, b>>)

SpecVerify == InitRead /\ [][NextVerify]_vars

(***************************************************************************)
(* PDF forms (pdf_writer).  A PDF is its pages, a page its widgets in the  *)
(* order page.widgets() yields them, a widget its type and its value.      *)
(***************************************************************************)
Widget(field_type, field_value) ==
  [field_type |-> field_type, field_value |-> field_value]

\* the F-ID of the n-th widget
FId(n) == <<"F", n>>

\* pdf_writer._build_field_index: F-ID -> (page, widget), counting the
\* widgets page after page
_build_field_index(pdf) ==
  LET slots == Flatten([p \in 1..Len(pdf) |->
                          [w \in 1..Len(pdf[p]) |-> <<p, w>>]])
  IN  [id \in {FId(n) : n \in 1..Len(slots)} |-> slots[id[2]]]

_TRUTHY_VALUES ==
  {<<"t", "r", "u", "e">>, <<"y", "e", "s">>, <<"1">>,
   <<"c", "h", "e", "c", "k", "e", "d">>, <<"o", "n">>}

\* pdf_writer._coerce_checkbox_value
_coerce_checkbox_value(value) == LowerStr(Strip(value)) \in _TRUTHY_VALUES

\* pdf_writer._set_widget_value: the widget after the assignment
_set_widget_value(widget, value) ==
  IF widget.field_type = "checkbox"
  THEN [widget EXCEPT !.field_value = _coerce_checkbox_value(value)]
  ELSE [widget EXCEPT !.field_value = value]

\* a mutant: the loop ends at the first unknown field ID
RECURSIVE pdf_write_until_unknown(_, _)
pdf_write_until_unknown(pdf, answers) ==
  IF answers = <<>> THEN [raised |-> "", has_bytes |-> TRUE, body |-> pdf]
  ELSE IF Head(answers).field_id \notin DOMAIN _build_field_index(pdf)
    THEN [raised |-> "", has_bytes |-> TRUE, body |-> pdf]
  ELSE pdf_write_until_unknown(
         [pdf EXCEPT ![_build_field_index(pdf)[Head(answers).field_id][1]]
                       [_build_field_index(pdf)[Head(answers).field_id][2]] =
            _set_widget_value(@, Head(answers).value)],
         Tail(answers))

\* pdf_writer.write_answers: the answers applied in order, those with an
\* unknown field ID passed over; the result is the bytes of the document
RECURSIVE pdf_write_answers(_, _)
pdf_write_answers(pdf, answers) ==
  IF answers = <<>> THEN [raised |-> "", has_bytes |-> TRUE, body |-> pdf]
  ELSE IF Head(answers).field_id \notin DOMAIN _build_field_index(pdf)
    THEN pdf_write_answers(pdf, Tail(answers))
  ELSE pdf_write_answers(
         [pdf EXCEPT ![_build_field_index(pdf)[Head(answers).field_id][1]]
                       [_build_field_index(pdf)[Head(answers).field_id][2]] =
            _set_widget_value(@, Head(answers).value)],
         Tail(answers))

\* the widgets of the forms: text fields, empty or filled, and checkboxes
Widgets ==
  {Widget("text", <<>>), Widget("text", <<"a">>), Widget("checkbox", FALSE)}

\* the PDF forms: one page of one or two widgets, and a two-page form
PdfForms ==
  {<<pg>> : pg \in UNION {[1..n -> Widgets] : n \in 1..2}}
  \cup {<< <<Widget("text", <<>>)>>,
           <<Widget("checkbox", FALSE), Widget("text", <<"a">>)>> >>}

\* the answers of a PDF write: known and unknown field IDs
PdfAnswers ==
  {[field_id |-> FId(n), value |-> v] :
     n \in {1, 2, 3, 9}, v \in {<<"b">>, <<"Y", "e", "s">>}}

InitPdf == Start(PdfForms)

\* pdf_writer.write_answers
PdfWrite(answers) ==
  /\ nWrites < MaxWrites
  /\ \E r \in {pdf_write_answers(doc, answers)} :
       /\ op' = "pdf_write" /\ arg' = answers /\ res' = r
       /\ doc' = IF r.has_bytes THEN r.body ELSE doc
       /\ prev' = <<>> /\ pre' = doc
  /\ nWrites' = nWrites + 1

NextPdf ==
  \/ \E a \in PdfAnswers : PdfWrite(<<a>>)
  \/ \E a \in PdfAnswers :
       PdfWrite(<<[field_id |-> FId(9), value |-> <<"b">>], a>>)

SpecPdf == InitPdf /\ [][NextPdf]_vars

(***************************************************************************)
(* Properties.                                                             *)
(***************************************************************************)
\* the element a reference stands for: the indexed element of a Stable ID,
\* the first element structurally equal to a fragment
ResolvedElement(body, loc) ==
  IF _is_element_id(loc) THEN LastWith(Entries(body), loc.id).path
  ELSE SnippetMatches(body, parse_snippet(loc).elem)[1]

\* the compact lines of an index by Stable ID
LinesById(body, sd) ==
  LET ct == extract_structure_compact(body, HashOrder[sd]).compact_text
  IN  [id \in {ct[k].id : k \in 1..Len(ct)} |->
         ct[CHOOSE k \in 1..Len(ct) : ct[k].id = id]]

\* the locator the write uses for an answer
EffectiveXPath(body, a) == AnswerPayload(a, resolve_if_needed(<<a>>, body)).xpath

\* C1: two Index calls on the same document bytes return the same
\* ID-to-locator map and the same compact text
C1_IndexDeterministic ==
  (op = "index" /\ prev # <<>>) =>
    /\ res.id_to_xpath = prev[1].id_to_xpath
    /\ res.compact_text = prev[1].compact_text

\* no item of the last Validate batch makes the call raise
NoItemRaises == \A k \in 1..Len(arg) : ~LocationRaises(arg[k], doc)

\* C2: resolving a Stable ID that Index produces for the document, against
\* the same document, returns MATCHED with a locator that dereferences to
\* an element (in a call no item of which raises)
C2_RoundTrip ==
  (op = "validate" /\ _is_element_id(arg[1]) /\ arg[1].id \in Ids(doc)
     /\ NoItemRaises) =>
    /\ ~res.raised
    /\ res.validated[1].status = "matched"
    /\ res.validated[1].has_xpath
    /\ xpath(doc, res.validated[1].xpath) # <<>>

C2_Witness ==
  /\ op = "validate" /\ _is_element_id(arg[1])
  /\ arg[1].id = <<"P", 2, 0, 0>> /\ arg[1].id \in Ids(doc)
  /\ res.validated[1].status = "matched"
  /\ Len(xpath(doc, res.validated[1].xpath)) = 1

\* C3: a locator returned with status MATCHED, found by Stable ID or by
\* fragment, passes the write-time grammar check and resolves to the element
\* it was computed for
C3_MatchedLocatorWritable ==
  (op = "validate" /\ ~res.raised /\ res.validated[1].status = "matched") =>
    /\ _validate_xpath(res.validated[1].xpath)
    /\ xpath(doc, res.validated[1].xpath) = <<ResolvedElement(doc, arg[1])>>

\* C4: every locator of the ID-to-locator map matches exactly one element of
\* the body, and two different Stable IDs never address the same element
C4_CollisionFree ==
  op = "index" =>
    /\ \A id \in DOMAIN res.id_to_xpath : Len(xpath(doc, res.id_to_xpath[id])) = 1
    /\ \A i, j \in DOMAIN res.id_to_xpath :
         i # j => xpath(doc, res.id_to_xpath[i]) # xpath(doc, res.id_to_xpath[j])

C4_Witness ==
  /\ op = "index"
  /\ Cardinality(DOMAIN res.id_to_xpath) >= 6
  /\ \E id \in DOMAIN res.id_to_xpath :
       \E k \in 1..Len(res.id_to_xpath[id]) : res.id_to_xpath[id][k].pos = 2

C6_StructurallyValid == _check_structural_issues(doc) = <<>>

\* C7: in every table row with an answer-target cell, each target cell is
\* tagged answer and not question, each other cell question and not answer
C7_RoleTags ==
  op = "index" =>
    \A k \in 1..Len(res.compact_text) :
      LET l == res.compact_text[k]
          InRow(m) == m.id[1] = "T" /\ m.id[2] = l.id[2] /\ m.id[3] = l.id[3]
      IN  (/\ l.id[1] = "T"
           /\ \E j \in 1..Len(res.compact_text) :
                InRow(res.compact_text[j]) /\ res.compact_text[j].target) =>
            IF l.target
            THEN "answer" \in Range(l.hints) /\ "question" \notin Range(l.hints)
            ELSE "question" \in Range(l.hints) /\ "answer" \notin Range(l.hints)

\* C8: resolving a fragment with N structurally equal elements gives
\* NOT_FOUND for N = 0, MATCHED with that element's locator for N = 1, and
\* AMBIGUOUS with count N for N >= 2
C8_SnippetCount ==
  (op = "validate" /\ ~_is_element_id(arg[1])
     /\ parse_snippet(arg[1]).status = "elem") =>
    LET ms == SnippetMatches(doc, parse_snippet(arg[1]).elem)
    IN  /\ ~res.raised
        /\ Len(ms) = 0 => res.validated[1].status = "not_found"
        /\ Len(ms) = 1 =>
             /\ res.validated[1].status = "matched"
             /\ xpath(doc, res.validated[1].xpath) = <<ms[1]>>
        /\ Len(ms) >= 2 =>
             /\ res.validated[1].status = "ambiguous"
             /\ res.validated[1].context.count = Len(ms)

\* C9: resolving the Stable ID of a table cell that holds non-target text
\* returns MATCHED with the locator of the map, and the context carries the
\* warning together with the context text (in a call no item of which raises)
C9_WarningAdvisory ==
  (/\ op = "validate" /\ _is_element_id(arg[1]) /\ NoItemRaises
   /\ arg[1].id \in Ids(doc) /\ TABLE_CELL_RE(arg[1].id)
   /\ ~is_answer_target(get_text(NodeAt(doc, ResolvedElement(doc, arg[1]))))) =>
    /\ ~res.raised
    /\ res.validated[1].status = "matched"
    /\ res.validated[1].has_xpath
    /\ res.validated[1].xpath = IdToXPath(doc)[arg[1].id]
    /\ res.validated[1].context.warning.on
    /\ res.validated[1].context.text
         = _get_context_text(NodeAt(doc, ResolvedElement(doc, arg[1])))

C9_Witness ==
  /\ op = "validate" /\ _is_element_id(arg[1])
  /\ arg[1].id \in Ids(doc) /\ TABLE_CELL_RE(arg[1].id)
  /\ res.validated[1].context.warning.on
  /\ res.validated[1].context.warning.suggestion # NoId
  /\ res.validated[1].context.text # <<>>

\* C10: a dry-run call returns preview records only, no output bytes, and
\* leaves the document such that indexing it gives the same result as before
C10_DryRunPure ==
  op = "dry_run" =>
    /\ ~res.has_bytes
    /\ doc = pre
    /\ res.raised = "" => Len(res.preview) = Len(arg)
    /\ \A sd \in Seeds :
         extract_structure_compact(doc, HashOrder[sd])
           = extract_structure_compact(pre, HashOrder[sd])

C10_Witness ==
  /\ op = "dry_run" /\ res.raised = ""
  /\ Len(res.preview) = 1
  /\ res.preview[1].status = "warning"
  /\ res.preview[1].mode = "replace_content"
  /\ res.preview[1].current_text # <<>>

\* the target of a preview record: the first element its locator matches
PreviewTarget(p) == NodeAt(doc, xpath(doc, p.xpath)[1])

\* C11: each preview record of a dry run has status error exactly when its
\* locator matches no element, ok exactly when it matches and the target's
\* current text is the empty string, warning exactly when it matches and
\* the target's current text is not the empty string
C11_PreviewStatus ==
  (op = "dry_run" /\ res.raised = "") =>
    \A k \in 1..Len(res.preview) :
      \A p \in {res.preview[k]} :
        p.status # "skipped" =>
          /\ p.status \in {"error", "ok", "warning"}
          /\ p.status = "error" <=> xpath(doc, p.xpath) = <<>>
          /\ p.status = "ok" <=>
               (xpath(doc, p.xpath) # <<>> /\ get_text(PreviewTarget(p)) = <<>>)
          /\ p.status = "warning" <=>
               (xpath(doc, p.xpath) # <<>> /\ get_text(PreviewTarget(p)) # <<>>)

\* C11, amended: each preview record of a dry run has status error exactly
\* when its locator matches no element, ok exactly when it matches and the
\* target's current text is empty or whitespace only, warning exactly when
\* it matches and the target's current text holds a non-whitespace character
C11_PreviewStatusBlank ==
  (op = "dry_run" /\ res.raised = "") =>
    \A k \in 1..Len(res.preview) :
      \A p \in {res.preview[k]} :
        p.status # "skipped" =>
          /\ p.status \in {"error", "ok", "warning"}
          /\ p.status = "error" <=> xpath(doc, p.xpath) = <<>>
          /\ p.status = "ok" <=>
               (/\ xpath(doc, p.xpath) # <<>>
                /\ \A i \in DOMAIN get_text(PreviewTarget(p)) :
                     IsSpace(get_text(PreviewTarget(p))[i]))
          /\ p.status = "warning" <=>
               (/\ xpath(doc, p.xpath) # <<>>
                /\ \E i \in DOMAIN get_text(PreviewTarget(p)) :
                     ~IsSpace(get_text(PreviewTarget(p))[i]))

C11_Witness ==
  /\ op = "dry_run" /\ res.raised = "" /\ Len(res.preview) = 1
  /\ res.preview[1].status = "ok"
  /\ res.preview[1].current_text = <<" ">>

\* the payloads the write hands to the handler: those that are not SKIP
ToWrite(body, answers) ==
  SelectSeq([k \in 1..Len(answers) |->
               AnswerPayload(answers[k], resolve_if_needed(answers, body))],
            LAMBDA q : ~_is_skip(q))

\* the batch passes the checks made while the payloads are built
Accepted(body, answers) ==
  \A k \in 1..Len(answers) :
    ~PayloadError(answers[k], resolve_if_needed(answers, body))

\* C12: a write whose batch holds a payload with a locator outside the
\* positional grammar fails and returns no bytes; when the answers before
\* that payload apply, the error is the one naming the locator as not
\* matching the expected pattern, raised before the locator is evaluated
C12_InvalidLocatorRejected ==
  (op = "write" /\ Accepted(pre, arg)) =>
    \A tw \in {ToWrite(pre, arg)} :
      \A k \in 1..Len(tw) :
        ~_validate_xpath(tw[k].xpath) =>
          /\ res.raised # "" /\ ~res.has_bytes /\ doc = pre
          /\ ApplyAll(pre, SubSeq(tw, 1, k - 1)).raised = ""
               => res.raised = PatternError

C12_Witness ==
  /\ op = "write" /\ Len(arg) = 2 /\ Accepted(pre, arg)
  /\ _validate_xpath(EffectiveXPath(pre, arg[1]))
  /\ arg[2].xpath = <<>>
  /\ res.raised = PatternError

\* C13: a write whose batch holds, at any position, a payload whose locator
\* is outside the grammar, cannot be evaluated or matches no element of the
\* document fails with an error, returns no bytes and leaves the document
\* as it was, edits of earlier answers included
C13_AllOrNothing ==
  (op = "write" /\ Accepted(pre, arg)) =>
    \A tw \in {ToWrite(pre, arg)} :
      (\E k \in 1..Len(tw) :
         \/ ~_validate_xpath(tw[k].xpath)
         \/ XPathRaises(tw[k].xpath)
         \/ xpath(pre, tw[k].xpath) = <<>>) =>
        /\ res.raised # "" /\ ~res.has_bytes
        /\ res.body = NoElem /\ doc = pre

C13_Witness ==
  /\ op = "write" /\ Len(arg) = 2 /\ Accepted(pre, arg)
  /\ ApplyAll(pre, SubSeq(ToWrite(pre, arg), 1, 1)).raised = ""
  /\ ApplyAll(pre, SubSeq(ToWrite(pre, arg), 1, 1)).body # pre
  /\ arg[2].xpath = <<[name |-> "w:p", pos |-> 9]>>
  /\ res.raised = NoMatchError /\ doc = pre

\* the answers of a batch that set the widget of F-ID id, in batch order
AnswersFor(answers, id) == SelectSeq(answers, LAMBDA a : a.field_id = id)

\* C14: a PDF write raises nothing and returns bytes; in the output every
\* widget named by an answer of the batch holds the value of the last such
\* answer, whatever unknown field IDs the batch also holds, and every other
\* widget is as before
C14_PdfSkipsUnknown ==
  op = "pdf_write" =>
    /\ res.raised = "" /\ res.has_bytes
    /\ \A ix \in {_build_field_index(pre)} :
         /\ _build_field_index(doc) = ix
         /\ \A id \in DOMAIN ix :
              \A mine \in {AnswersFor(arg, id)} :
                doc[ix[id][1]][ix[id][2]] =
                  IF mine = <<>> THEN pre[ix[id][1]][ix[id][2]]
                  ELSE _set_widget_value(pre[ix[id][1]][ix[id][2]],
                                         mine[Len(mine)].value)

C14_Witness ==
  /\ op = "pdf_write" /\ Len(arg) = 2
  /\ arg[1].field_id \notin DOMAIN _build_field_index(pre)
  /\ arg[2].field_id \in DOMAIN _build_field_index(pre)
  /\ res.has_bytes /\ doc # pre

\* the status a reference calls for: by its Stable ID, or by the number of
\* elements structurally equal to its fragment (none when the reference
\* holds no element)
StatusOf(body, loc) ==
  IF _is_element_id(loc)
  THEN IF loc.id \in Ids(body) THEN "matched" ELSE "not_found"
  ELSE IF parse_snippet(loc).status # "elem" THEN "not_found"
  ELSE IF Len(SnippetMatches(body, parse_snippet(loc).elem)) = 0 THEN "not_found"
  ELSE IF Len(SnippetMatches(body, parse_snippet(loc).elem)) = 1 THEN "matched"
  ELSE "ambiguous"

\* C15: Validate raises nothing and returns one outcome per item of the
\* batch, in input order, each with the status its own reference calls for,
\* whatever the other items of the batch are
C15_FullBatch ==
  op = "validate" =>
    /\ ~res.raised
    /\ Len(res.validated) = Len(arg)
    /\ \A k \in 1..Len(arg) : res.validated[k].status = StatusOf(doc, arg[k])

\* C16: for each expected answer of a Word Verify the status is missing
\* exactly when the locator matches no element, and otherwise matched
\* exactly when the expected text, case ignored, is a substring of the
\* element's text, mismatched in every other case
C16_VerifyStatus ==
  (op = "verify" /\ res.raised = "") =>
    \A k \in 1..Len(arg) :
      \A r \in {res.content_results[k]}, m \in {xpath(doc, arg[k].xpath)} :
        /\ r.status \in {"missing", "matched", "mismatched"}
        /\ r.status = "missing" <=> m = <<>>
        /\ m # <<>> =>
             (r.status = "matched" <=>
                IsSubstring(LowerStr(arg[k].expected_text),
                            LowerStr(_extract_text(NodeAt(doc, m[1])))))

(***************************************************************************)
(* Write, then verify what was written (Word and PDF).                     *)
(***************************************************************************)
\* pdf_verifier._build_value_index: F-ID -> the widget's value as text.  A
\* checkbox reads back as the name of its state, "Yes" or "Off"
\* (tests/test_pdf.py: "checkbox stores "Yes" not "true"")
_build_value_index(pdf) ==
  [id \in DOMAIN _build_field_index(pdf) |->
     LET w == pdf[_build_field_index(pdf)[id][1]][_build_field_index(pdf)[id][2]]
     IN  IF w.field_type = "checkbox"
         THEN (IF w.field_value THEN <<"Y", "e", "s">> ELSE <<"O", "f", "f">>)
         ELSE w.field_value]

\* pdf_verifier._verify_content, the loop body
PdfVerifyOne(field_index, answer) ==
  IF answer.xpath \notin DOMAIN field_index
  THEN ContentResult(answer.pair_id, "missing", answer.expected_text, <<>>)
  ELSE ContentResult(
         answer.pair_id,
         IF IsSubstring(LowerStr(answer.expected_text),
                        LowerStr(field_index[answer.xpath]))
         THEN "matched" ELSE "mismatched",
         answer.expected_text,
         field_index[answer.xpath])

\* pdf_verifier.verify_output
pdf_verify_output(pdf, expected_answers) ==
  [raised |-> "", structural_issues |-> <<>>,
   content_results |-> [k \in 1..Len(expected_answers) |->
                          PdfVerifyOne(_build_value_index(pdf), expected_answers[k])]]

\* the text an answer writes: its answer_text, or the text of its markup
TextOfAnswer(a) ==
  IF _is_provided(a.answer_text) THEN a.answer_text
  ELSE _extract_text(parse_snippet(a.insertion_xml).elem)

\* the answer carries a text: plain, or markup that parses to an element
HasText(a) ==
  _is_provided(a.answer_text) \/ parse_snippet(a.insertion_xml).status = "elem"

\* what the caller of a Word write expects to find: for every answer that
\* wrote a text with replace_content at a locator of the index, its text
WrittenExpected(body, answers) ==
  LET tw   == ToWrite(body, answers)
      keep == SelectSeq(tw, LAMBDA q : q.mode = "replace_content"
                                        /\ q.xpath \in IdLocators(body)
                                        /\ HasText(q))
  IN  [k \in 1..Len(keep) |->
         ExpectedAnswer(keep[k].pair_id, keep[k].xpath, TextOfAnswer(keep[k]))]

\* the same for a PDF write, for the field IDs of the form
PdfWrittenExpected(pdf, answers) ==
  LET keep == SelectSeq(answers,
                        LAMBDA a : a.field_id \in DOMAIN _build_field_index(pdf))
  IN  [k \in 1..Len(keep) |->
         ExpectedAnswer(Key, keep[k].field_id, keep[k].value)]

\* answers by Stable ID with texts that start with a space or hold a capital
TextAnswers(body) ==
  {Ans(id, FALSE, <<>>, "none", t, NoSnippet) :
     id \in Ids(body), t \in {<<" ", "A">>, <<"A", "b">>}}

PdfTextAnswers ==
  {[field_id |-> FId(n), value |-> v] :
     n \in {1, 2}, v \in {<<"1">>, <<"A", "b">>}}

WordOps == {"init", "write", "verify"}

InitRoundTrip ==
  \/ Start(SeedForms)
  \/ /\ doc \in PdfForms
     /\ op = "pdf_init" /\ arg = <<>> /\ res = <<>>
     /\ pre = doc /\ prev = <<>> /\ nWrites = 0

\* pdf_verifier.verify_output on the document the caller holds
PdfVerify(expected_answers) ==
  /\ op' = "pdf_verify" /\ arg' = expected_answers
  /\ res' = pdf_verify_output(doc, expected_answers)
  /\ prev' = IF op = "pdf_write" THEN <<[arg |-> arg, pre |-> pre, res |-> res]>>
             ELSE <<>>
  /\ pre' = doc
  /\ UNCHANGED <<doc, nWrites>>

NextRoundTrip ==
  \/ op \in WordOps /\ \E a \in Answers(doc) \cup TextAnswers(doc) : Write(<<a>>)
  \/ /\ op = "write" /\ res.has_bytes
     /\ WrittenExpected(pre, arg) # <<>>
     /\ Verify(WrittenExpected(pre, arg))
  \/ op \notin WordOps /\ \E a \in PdfAnswers \cup PdfTextAnswers : PdfWrite(<<a>>)
  \/ /\ op = "pdf_write"
     /\ PdfWrittenExpected(pre, arg) # <<>>
     /\ PdfVerify(PdfWrittenExpected(pre, arg))

SpecRoundTrip == InitRoundTrip /\ [][NextRoundTrip]_vars

\* the last call verified what the write before it wrote, Word or PDF
VerifiedWrite ==
  /\ op \in {"verify", "pdf_verify"} /\ prev # <<>>
  /\ arg = IF op = "verify" THEN WrittenExpected(prev[1].pre, prev[1].arg)
           ELSE PdfWrittenExpected(prev[1].pre, prev[1].arg)

PropertyNodes(e) == SelectSeq(e.kids, LAMBDA c : c.tag \in PreserveTags)

\* the markup an answer inserts at its target
InsertionOf(target, q) ==
  IF _is_provided(q.answer_text)
  THEN _build_insertion_xml_for_answer_text(target, q.answer_text)
  ELSE q.insertion_xml

\* the last write succeeded and its k-th payload used replace_content
ReplacedContent(k) ==
  /\ op = "write" /\ res.has_bytes
  /\ k \in 1..Len(ToWrite(pre, arg))
  /\ ToWrite(pre, arg)[k].mode = "replace_content"

\* C18: after a replace_content write the target's w:tcPr / w:pPr children
\* are the ones it had before, with the same attributes and content
C18_PropertiesKept ==
  \A k \in 1..Len(arg) :
    ReplacedContent(k) =>
      \A m \in {xpath(pre, ToWrite(pre, arg)[k].xpath)[1]} :
        /\ PropertyNodes(NodeAt(doc, m)) = PropertyNodes(NodeAt(pre, m))
        /\ NodeAt(doc, m).tag = NodeAt(pre, m).tag

C18_Witness ==
  /\ ReplacedContent(1) /\ doc # pre
  /\ \E m \in {xpath(pre, ToWrite(pre, arg)[1].xpath)[1]} :
       /\ NodeAt(pre, m).tag = "w:tc"
       /\ PropertyNodes(NodeAt(pre, m)) = <<TcPr>>
       /\ NodeAt(doc, m).kids # NodeAt(pre, m).kids

\* C19: after a replace_content write at a table cell whose new content is
\* a run, the cell has no run as a direct child and its last child is a
\* paragraph that holds exactly that run
C19_RunWrapped ==
  \A k \in 1..Len(arg) :
    ReplacedContent(k) =>
      \A m \in {xpath(pre, ToWrite(pre, arg)[k].xpath)[1]} :
        \A ps \in {parse_snippet(InsertionOf(NodeAt(pre, m), ToWrite(pre, arg)[k]))},
           new \in {NodeAt(doc, m)} :
          (NodeAt(pre, m).tag = "w:tc" /\ ps.status = "elem" /\ ps.elem.tag = "w:r") =>
            /\ \A c \in 1..Len(new.kids) : new.kids[c].tag # "w:r"
            /\ new.kids # <<>>
            /\ new.kids[Len(new.kids)] = Node("w:p", NoAttr, <<>>, <<ps.elem>>)

C19_Witness ==
  /\ ReplacedContent(1) /\ Len(arg) = 1
  /\ arg[1].insertion_xml = RunXml
  /\ \E m \in {xpath(pre, ToWrite(pre, arg)[1].xpath)[1]} :
       /\ NodeAt(pre, m).tag = "w:tc"
       /\ NodeAt(doc, m).kids = <<TcPr, P(<<R(<<"b">>)>>)>>

\* the start of the leftmost placeholder of a text
FirstPlaceholder(s) ==
  CHOOSE i \in 1..Len(s) :
    /\ BracketAt(s, i) \/ UnderscoresAt(s, i)
    /\ \A j \in 1..(i - 1) : ~(BracketAt(s, j) \/ UnderscoresAt(s, j))

\* the text with its leftmost placeholder, and nothing else, replaced
SubFirst(s, new) ==
  LET i == FirstPlaceholder(s)
      e == IF BracketAt(s, i)
           THEN CHOOSE j \in (i + 2)..Len(s) :
                  s[j] = "]" /\ \A k \in (i + 2)..(j - 1) : s[k] # "]"
           ELSE RunEnd(s, i)
  IN  SubSeq(s, 1, i - 1) \o new \o SubSeq(s, e + 1, Len(s))

\* the target with the first placeholder of its first w:t that holds one
\* replaced by new_text, and everything else as it was
OnePlaceholderReplaced(target, new_text) ==
  LET ts == SelectSeq(IterTag(target, "w:t"),
              LAMBDA p : HasBracket(NodeAt(target, p).text)
                         \/ HasUnderscores(NodeAt(target, p).text))
  IN  IF ts = <<>> THEN target
      ELSE ReplaceAt(target, Head(ts),
                     [NodeAt(target, Head(ts)) EXCEPT
                        !.text = SubFirst(@, new_text)])

\* the last write succeeded with one payload, a replace_placeholder whose
\* markup holds an element
ReplacedPlaceholder ==
  /\ op = "write" /\ res.has_bytes /\ Len(arg) = 1
  /\ Len(ToWrite(pre, arg)) = 1
  /\ ToWrite(pre, arg)[1].mode = "replace_placeholder"
  /\ parse_snippet(InsertionOf(NodeAt(pre, xpath(pre, ToWrite(pre, arg)[1].xpath)[1]),
                               ToWrite(pre, arg)[1])).status = "elem"

\* C20: a replace_placeholder write replaces the first placeholder of the
\* target, only its span, and leaves the text around it and every later
\* placeholder as they were
C20_OnePlaceholder ==
  ReplacedPlaceholder =>
    \A m \in {xpath(pre, ToWrite(pre, arg)[1].xpath)[1]} :
      \A ps \in {parse_snippet(InsertionOf(NodeAt(pre, m), ToWrite(pre, arg)[1]))} :
        NodeAt(doc, m) =
          OnePlaceholderReplaced(
            NodeAt(pre, m),
            IF FindDesc(ps.elem, "w:t") THEN FirstDesc(ps.elem, "w:t").text ELSE <<>>)

(***************************************************************************)
(* The .docx archive (word_writer._repackage_docx_zip).  An archive is the *)
(* sequence of its parts, a part its name and its bytes; the bytes of the  *)
(* document part are the body they serialise.                              *)
(***************************************************************************)
DocPart == "word/document.xml"

Part(filename, data) == [filename |-> filename, data |-> data]

\* ZipFile.read(name): the bytes of the last part of that name
ZipRead(zip, filename) ==
  zip[CHOOSE k \in 1..Len(zip) :
        /\ zip[k].filename = filename
        /\ \A j \in (k + 1)..Len(zip) : zip[j].filename # filename].data

\* a mutant: the output holds the document part alone
_repackage_document_only(file_bytes, modified_xml) ==
  <<Part(DocPart, modified_xml)>>

\* word_writer._repackage_docx_zip
_repackage_docx_zip(file_bytes, modified_xml) ==
  [k \in 1..Len(file_bytes) |->
     IF file_bytes[k].filename = DocPart
     THEN Part(file_bytes[k].filename, modified_xml)
     ELSE Part(file_bytes[k].filename, ZipRead(file_bytes, file_bytes[k].filename))]

\* the bytes a successful write returns
Repackaged(file_bytes, out) ==
  [raised |-> out.raised, has_bytes |-> out.raised = "",
   bytes |-> IF out.raised = "" THEN _repackage_docx_zip(file_bytes, out.body)
             ELSE <<>>]

\* word_writer.write_answers on the archive
docx_write_answers(file_bytes, answers) ==
  Repackaged(file_bytes, ApplyAll(ZipRead(file_bytes, DocPart), answers))

OtherParts ==
  {Part("[Content_Types].xml", <<"x">>), Part("word/styles.xml", <<"y">>)}

\* the orders of the parts of a set
Orders(parts) ==
  {q \in [1..Cardinality(parts) -> parts] :
     \A i, j \in 1..Cardinality(parts) : i # j => q[i] # q[j]}

\* the archives: the document part and none, one or both of the other
\* parts, in any order
Archives ==
  UNION {Orders({Part(DocPart, b)} \cup others) :
           b \in SeedForms, others \in SUBSET OtherParts}

\* the payloads handed to the writer: run markup at a locator of the index,
\* and a locator that matches nothing
ZipPayloads(body) ==
  {AnswerPayload(Ans(Key, TRUE, xp, mode, <<>>, RunXml), <<>>) :
     xp \in IdLocators(body) \cup {<<[name |-> "w:p", pos |-> 9]>>},
     mode \in {"replace_content", "append"}}

InitZip ==
  /\ doc \in Archives
  /\ op = "init" /\ arg = <<>> /\ res = <<>>
  /\ pre = doc /\ prev = <<>> /\ nWrites = 0

ZipWrite(answers) ==
  /\ nWrites < MaxWrites
  /\ \E r \in {docx_write_answers(doc, answers)} :
       /\ op' = "zip_write" /\ arg' = answers /\ res' = r
       /\ doc' = IF r.has_bytes THEN r.bytes ELSE doc
       /\ prev' = <<>> /\ pre' = doc
  /\ nWrites' = nWrites + 1

NextZip == \E a \in ZipPayloads(ZipRead(doc, DocPart)) : ZipWrite(<<a>>)

SpecZip == InitZip /\ [][NextZip]_vars

\* C21: the archive a Word write returns has the parts of the input, in the
\* same order and under the same names; every part but the document part
\* holds the bytes it held, and no part is dropped or added
C21_OtherPartsCopied ==
  (op = "zip_write" /\ res.has_bytes) =>
    /\ Len(doc) = Len(pre)
    /\ \A k \in 1..Len(pre) :
         /\ doc[k].filename = pre[k].filename
         /\ pre[k].filename # DocPart => doc[k].data = pre[k].data
         /\ pre[k].filename = DocPart => doc[k].data = ApplyAll(pre[k].data, arg).body

C21_Witness ==
  /\ op = "zip_write" /\ res.has_bytes
  /\ Len(pre) = 3 /\ pre[2].filename = DocPart
  /\ doc[2] # pre[2]
  /\ doc[1] = pre[1] /\ doc[3] = pre[3]

\* the Stable ID of the next column in the row of table cell id
NextColumn(id) == <<"T", id[2], id[3], id[4] + 1>>

\* C22: when the question-cell warning is issued for a cell, its suggestion
\* is the ID of the next column of the row if that cell exists and is an
\* answer target, and there is no suggestion otherwise
C22_SuggestsAnswerTarget ==
  (/\ op = "validate" /\ NoItemRaises /\ _is_element_id(arg[1])
   /\ arg[1].id \in Ids(doc)
   /\ res.validated[1].context.warning.on) =>
    \A next \in {NextColumn(arg[1].id)} :
      res.validated[1].context.warning.suggestion =
        IF /\ next \in Ids(doc)
           /\ is_answer_target(get_text(NodeAt(doc, ResolvedElement(doc, IdRef(next)))))
        THEN next ELSE NoId

\* the location is a fragment that does not parse to an element: text
\* that is not XML, an empty string or plain text
Unparsable(loc) ==
  ~_is_element_id(loc) /\ parse_snippet(loc).status \in {"none", "raise"}

\* C23: a Validate call with a fragment that cannot be parsed does not
\* raise and gives that item the status NOT_FOUND
C23_UnparsableNotFound ==
  op = "validate" =>
    \A k \in 1..Len(arg) :
      Unparsable(arg[k]) =>
        /\ ~res.raised
        /\ res.validated[k].status = "not_found"

(***************************************************************************)
(* Spreadsheets (excel_indexer, excel, excel_writer, excel_verifier).  A   *)
(* workbook is the sequence of its sheets, a sheet the rows 1..max_row of  *)
(* its cells, each row the columns 1..max_column; <<>> is a cell with no   *)
(* value.  A cell ID is text: three runs of digits, or some other string.  *)
(***************************************************************************)
DigitChars == <<"0", "1", "2", "3", "4", "5", "6", "7", "8", "9">>

\* int(digits)
RECURSIVE ToInt(_)
ToInt(ds) ==
  IF ds = <<>> THEN 0
  ELSE 10 * ToInt(SubSeq(ds, 1, Len(ds) - 1))
       + (CHOOSE d \in 0..9 : DigitChars[d + 1] = ds[Len(ds)])

\* str(n)
RECURSIVE ToStr(_)
ToStr(n) ==
  IF n < 10 THEN <<DigitChars[n + 1]>>
  ELSE ToStr(n \div 10) \o <<DigitChars[(n % 10) + 1]>>

\* the text S<s>-R<r>-C<c> with the digits as written
CellText(s, r, c) == [form |-> "cell", s |-> s, r |-> r, c |-> c]

\* f"S{sheet_idx}-R{cell.row}-C{cell.column}"
CellId(sheet_idx, row, col) == CellText(ToStr(sheet_idx), ToStr(row), ToStr(col))

\* a string that CELL_ID_RE does not match
NoCellText == [form |-> "other", s |-> <<>>, r |-> <<>>, c |-> <<>>]

\* excel_writer._parse_cell_id: (sheet, row, column), or ValueError
_parse_cell_id(cell_id) ==
  IF cell_id.form = "cell"
  THEN [raised |-> "", sheet |-> ToInt(cell_id.s), row |-> ToInt(cell_id.r),
        col |-> ToInt(cell_id.c)]
  ELSE [raised |-> "ValueError", sheet |-> 0, row |-> 0, col |-> 0]

max_row(ws) == Len(ws)
max_column(ws) == Len(ws[1])

\* the cell IDs excel_indexer._index_sheet gives to the cells of the workbook
SheetIds(wb) ==
  UNION {{CellId(k, r, c) : r \in 1..max_row(wb[k]), c \in 1..max_column(wb[k])} :
           k \in 1..Len(wb)}

\* a mutant: the map sends every cell ID to the ID of the sheet's first cell
excel_id_to_first(wb) ==
  [id \in SheetIds(wb) |-> CellId(ToInt(id.s), 1, 1)]

\* excel_indexer.extract_structure_compact: the id_to_xpath map
excel_id_to_xpath(wb) == [id \in SheetIds(wb) |-> id]

\* excel._validate_cell_id
_validate_cell_id(wb, loc) ==
  LET pc == _parse_cell_id(loc)
  IN  IF pc.raised # "" THEN [status |-> "not_found", xpath |-> NoCellText]
      ELSE IF pc.sheet < 1 \/ pc.sheet > Len(wb)
        THEN [status |-> "not_found", xpath |-> NoCellText]
      ELSE IF pc.row < 1 \/ pc.row > max_row(wb[pc.sheet])
              \/ pc.col < 1 \/ pc.col > max_column(wb[pc.sheet])
        THEN [status |-> "not_found", xpath |-> NoCellText]
      ELSE [status |-> "matched", xpath |-> loc]

\* excel.validate_locations
excel_validate_locations(wb, locations) ==
  [k \in 1..Len(locations) |-> _validate_cell_id(wb, locations[k])]

\* ws.cell(row, column).value; a cell outside the sheet has no value
CellValue(ws, row, col) ==
  IF row <= max_row(ws) /\ col <= max_column(ws) THEN ws[row][col] ELSE <<>>

\* ws.cell(row=row, column=col, value=value): the sheet grows to hold the cell
SetCell(ws, row, col, value) ==
  [r \in 1..(IF row > max_row(ws) THEN row ELSE max_row(ws)) |->
     [c \in 1..(IF col > max_column(ws) THEN col ELSE max_column(ws)) |->
        IF r = row /\ c = col THEN value ELSE CellValue(ws, r, c)]]

\* excel_writer.write_answers, the loop body: the workbook after the
\* answer, or the ValueError of a cell ID that does not parse, of a sheet
\* index out of range or of a row or column below 1
excel_apply_answer(wb, answer) ==
  LET pc == _parse_cell_id(answer.cell_id)
  IN  IF pc.raised # "" THEN [raised |-> "ValueError", wb |-> wb]
      ELSE IF pc.sheet < 1 \/ pc.sheet > Len(wb)
        THEN [raised |-> "ValueError", wb |-> wb]
      ELSE IF pc.row < 1 \/ pc.col < 1 THEN [raised |-> "ValueError", wb |-> wb]
      ELSE [raised |-> "",
            wb |-> [wb EXCEPT ![pc.sheet] = SetCell(@, pc.row, pc.col, answer.value)]]

\* a mutant: of two answers for one workbook only the first is written
excel_write_first(wb, answers) ==
  IF answers = <<>> THEN [raised |-> "", has_bytes |-> TRUE, wb |-> wb]
  ELSE [raised |-> excel_apply_answer(wb, Head(answers)).raised,
        has_bytes |-> excel_apply_answer(wb, Head(answers)).raised = "",
        wb |-> excel_apply_answer(wb, Head(answers)).wb]

\* excel_writer.write_answers: the answers in list order; the first
\* exception ends the call
RECURSIVE excel_write_answers(_, _)
excel_write_answers(wb, answers) ==
  IF answers = <<>> THEN [raised |-> "", has_bytes |-> TRUE, wb |-> wb]
  ELSE IF excel_apply_answer(wb, Head(answers)).raised # ""
    THEN [raised |-> "ValueError", has_bytes |-> FALSE, wb |-> wb]
  ELSE excel_write_answers(excel_apply_answer(wb, Head(answers)).wb, Tail(answers))

\* excel_verifier._verify_content, the loop body (row and column at least 1)
ExcelVerifyOne(wb, answer) ==
  LET pc == _parse_cell_id(answer.xpath)
  IN  IF pc.raised # "" \/ pc.sheet < 1 \/ pc.sheet > Len(wb)
      THEN ContentResult(answer.pair_id, "missing", answer.expected_text, <<>>)
      ELSE ContentResult(
             answer.pair_id,
             IF IsSubstring(LowerStr(answer.expected_text),
                            LowerStr(CellValue(wb[pc.sheet], pc.row, pc.col)))
             THEN "matched" ELSE "mismatched",
             answer.expected_text,
             CellValue(wb[pc.sheet], pc.row, pc.col))

\* excel_verifier.verify_output: ws.cell raises ValueError for a row or
\* column below 1, and the exception is not caught
excel_verify_output(wb, expected_answers) ==
  IF \E k \in 1..Len(expected_answers) :
       \E pc \in {_parse_cell_id(expected_answers[k].xpath)} :
         pc.raised = "" /\ pc.sheet \in 1..Len(wb) /\ (pc.row < 1 \/ pc.col < 1)
  THEN [raised |-> "ValueError", structural_issues |-> <<>>, content_results |-> <<>>]
  ELSE [raised |-> "", structural_issues |-> <<>>,
        content_results |-> [k \in 1..Len(expected_answers) |->
                               ExcelVerifyOne(wb, expected_answers[k])]]

(***************************************************************************)
(* PDF index and validation (pdf_indexer, pdf).  A widget here also has    *)
(* its native field name, <<>> when the PDF gives it none.                 *)
(***************************************************************************)
NamedWidget(field_type, field_value, field_name) ==
  [field_type |-> field_type, field_value |-> field_value, field_name |-> field_name]

\* widget.field_name or f"unnamed_{counter}"
native_name(widget, counter) ==
  IF widget.field_name # <<>> THEN widget.field_name ELSE <<"unnamed", counter>>

\* pdf_indexer.extract_structure_compact: the id_to_xpath map
pdf_id_to_xpath(pdf) ==
  [id \in DOMAIN _build_field_index(pdf) |->
     native_name(pdf[_build_field_index(pdf)[id][1]][_build_field_index(pdf)[id][2]],
                 id[2])]

\* pdf.validate_locations
pdf_validate_locations(pdf, locations) ==
  [k \in 1..Len(locations) |->
     IF locations[k] \in DOMAIN _build_field_index(pdf)
     THEN [status |-> "matched", xpath |-> locations[k]]
     ELSE [status |-> "not_found", xpath |-> <<>>]]

(***************************************************************************)
(* Calls on a workbook and on a PDF form.                                  *)
(***************************************************************************)
Sheet12 == << <<<<"a">>, <<>>>> >>
Sheet22 == << <<<<"a">>, <<>>>>, <<<<"a">>, <<"a">>>> >>
EmptySheet == << <<<<>>>> >>

Workbooks == {<<Sheet12>>, <<Sheet22>>, <<Sheet12, EmptySheet>>}

\* cell IDs as Index writes them, in the workbook or not; the ID of a cell
\* of the workbook written with a leading zero; an ID with row 0; other text
CellTexts ==
  {CellId(1, 1, 1), CellId(1, 1, 2), CellId(2, 1, 1), CellId(1, 3, 1),
   CellId(3, 1, 1), CellId(1, 0, 1),
   CellText(<<"0", "1">>, <<"1">>, <<"2">>), NoCellText}

XlAnswers == {[cell_id |-> id, value |-> <<"b">>] : id \in CellTexts}

\* the answers of a two-answer batch: two values for one cell, a value for
\* another cell, and a cell ID that does not parse
XlBatchAnswers ==
  {[cell_id |-> CellId(1, 1, 2), value |-> <<"b">>],
   [cell_id |-> CellId(1, 1, 2), value |-> <<"A">>],
   [cell_id |-> CellId(1, 1, 1), value |-> <<"A">>],
   [cell_id |-> NoCellText, value |-> <<"b">>]}

XlExpected ==
  {ExpectedAnswer(Key, id, t) : id \in CellTexts, t \in {<<"a">>, <<"b">>}}

NamedPdfForms ==
  {<< <<NamedWidget("text", <<>>, <<"n">>)>> >>,
   << <<NamedWidget("text", <<"a">>, <<"n">>), NamedWidget("checkbox", FALSE, <<>>)>> >>,
   << <<NamedWidget("text", <<>>, <<>>)>>, <<NamedWidget("text", <<"a">>, <<"m">>)>> >>}

\* field IDs of the form or not, and a native field name
FieldTexts == {FId(1), FId(2), FId(3), <<"n">>}

XlOps == {"xl_init", "xl_index", "xl_validate", "xl_write", "xl_verify"}

InitIds ==
  /\ \/ doc \in Workbooks /\ op = "xl_init"
     \/ doc \in NamedPdfForms /\ op = "pdf_init"
  /\ arg = <<>> /\ res = <<>>
  /\ pre = doc /\ prev = <<>> /\ nWrites = 0

\* a call that reads the document
ReadCall(name, input, output) ==
  /\ op' = name /\ arg' = input /\ res' = output
  /\ prev' = <<>> /\ pre' = doc
  /\ UNCHANGED <<doc, nWrites>>

\* excel_writer.write_answers: the caller goes on with the returned workbook
XlWrite(answers) ==
  /\ nWrites < MaxWrites
  /\ \E r \in {excel_write_answers(doc, answers)} :
       /\ op' = "xl_write" /\ arg' = answers /\ res' = r
       /\ doc' = IF r.has_bytes THEN r.wb ELSE doc
       /\ prev' = <<>> /\ pre' = doc
  /\ nWrites' = nWrites + 1

NextIds ==
  \/ op \in XlOps /\ ReadCall("xl_index", <<>>, excel_id_to_xpath(doc))
  \/ op \in XlOps /\ \E id \in CellTexts :
       ReadCall("xl_validate", <<id>>, excel_validate_locations(doc, <<id>>))
  \/ op \in XlOps /\ \E a \in XlAnswers : XlWrite(<<a>>)
  \/ op \in XlOps /\ \E a, b \in XlBatchAnswers : XlWrite(<<a, b>>)
  \/ op \in XlOps /\ \E e \in XlExpected :
       ReadCall("xl_verify", <<e>>, excel_verify_output(doc, <<e>>))
  \/ op \notin XlOps /\ ReadCall("pdf_index", <<>>, pdf_id_to_xpath(doc))
  \/ op \notin XlOps /\ \E id \in FieldTexts :
       ReadCall("pdf_validate", <<id>>, pdf_validate_locations(doc, <<id>>))
  \/ op \notin XlOps /\ \E a \in PdfAnswers : PdfWrite(<<a>>)
  \/ op \notin XlOps /\ \E id \in FieldTexts :
       PdfVerify(<<ExpectedAnswer(Key, id, <<"b">>)>>)

SpecIds == InitIds /\ [][NextIds]_vars

\* C24: Validate of a reference that has the form of a cell ID or of a
\* field ID and is not an ID of the index of the document gives NOT_FOUND
C24_AbsentIdNotFound ==
  /\ op = "xl_validate" =>
       \A k \in 1..Len(arg) :
         (arg[k].form = "cell" /\ arg[k] \notin DOMAIN excel_id_to_xpath(doc))
           => res[k].status = "not_found"
  /\ op = "pdf_validate" =>
       \A k \in 1..Len(arg) :
         arg[k] \notin DOMAIN pdf_id_to_xpath(doc) => res[k].status = "not_found"

\* the widget the field index of the form gives for field ID id
WidgetAt(pdf, id) ==
  pdf[_build_field_index(pdf)[id][1]][_build_field_index(pdf)[id][2]]

\* Validate, write and Verify reach the element under the ID that Index
\* lists for it, for workbooks and PDF forms
AddressedById ==
  /\ op = "xl_validate" =>
       \A k \in 1..Len(arg) :
         arg[k] \in SheetIds(doc) =>
           res[k].status = "matched" /\ res[k].xpath = arg[k]
  /\ op = "pdf_validate" =>
       \A k \in 1..Len(arg) :
         arg[k] \in DOMAIN pdf_id_to_xpath(doc) =>
           res[k].status = "matched" /\ res[k].xpath = arg[k]
  /\ (op = "xl_write" /\ Len(arg) = 1 /\ arg[1].cell_id \in SheetIds(pre)) =>
       /\ res.has_bytes
       /\ SheetIds(doc) = SheetIds(pre)
       /\ \A id \in SheetIds(pre) :
            CellValue(doc[ToInt(id.s)], ToInt(id.r), ToInt(id.c)) =
              IF id = arg[1].cell_id THEN arg[1].value
              ELSE CellValue(pre[ToInt(id.s)], ToInt(id.r), ToInt(id.c))
  /\ (op = "pdf_write" /\ Len(arg) = 1
        /\ arg[1].field_id \in DOMAIN pdf_id_to_xpath(pre)) =>
       \A id \in DOMAIN pdf_id_to_xpath(pre) :
         WidgetAt(doc, id) =
           IF id = arg[1].field_id THEN _set_widget_value(WidgetAt(pre, id), arg[1].value)
           ELSE WidgetAt(pre, id)
  /\ op = "xl_verify" =>
       \A k \in 1..Len(arg) :
         arg[k].xpath \in SheetIds(doc) =>
           /\ res.raised = ""
           /\ res.content_results[k].actual =
                CellValue(doc[ToInt(arg[k].xpath.s)], ToInt(arg[k].xpath.r),
                          ToInt(arg[k].xpath.c))
  /\ op = "pdf_verify" =>
       \A k \in 1..Len(arg) :
         arg[k].xpath \in DOMAIN pdf_id_to_xpath(doc) =>
           res.content_results[k].actual = _build_value_index(doc)[arg[k].xpath]

\* C25 as stated: the index map of a workbook and of a PDF form sends
\* every Stable ID to itself, and Validate, write and Verify address the
\* element by that ID
C25_IdIsLocator ==
  /\ op \in {"xl_index", "pdf_index"} => \A id \in DOMAIN res : res[id] = id
  /\ AddressedById

\* C25: the index map of a workbook sends every cell ID to itself; the
\* index map of a PDF form sends every field ID to the native name of its
\* widget; Validate, write and Verify address the element by the ID
C25_IdAddresses ==
  /\ op = "xl_index" =>
       DOMAIN res = SheetIds(doc) /\ \A id \in DOMAIN res : res[id] = id
  /\ op = "pdf_index" =>
       /\ DOMAIN res = DOMAIN _build_field_index(doc)
       /\ \A id \in DOMAIN res : res[id] = native_name(WidgetAt(doc, id), id[2])
  /\ AddressedById

C25_Witness ==
  /\ op = "pdf_index" /\ Len(doc) = 2
  /\ res[FId(1)] = <<"unnamed", 1>> /\ res[FId(2)] = <<"m">>
  /\ nWrites > 0

(***************************************************************************)
(* Concurrent calls.  The server runs each call in a thread of its own;    *)
(* a call parses its input into a local body, works on it answer by        *)
(* answer, and returns.  Here doc, op, arg, res, pre and prev hold one     *)
(* entry per thread: the local body, the position of the call, the answers *)
(* still to apply, the result, the input document and the request;         *)
(* nWrites counts the calls received.                                      *)
(***************************************************************************)
MaxCalls == 3

Threads == {1, 2}

\* a mutant: one parsed body kept for all the calls
SharedBody(t) == 1

\* the body a call works on: the local variable of its own invocation
LocalBody(t) == t

AnswerCell == <<[name |-> "w:tbl", pos |-> 1], [name |-> "w:tr", pos |-> 1],
                [name |-> "w:tc", pos |-> 2]>>

ConcForms ==
  {Body(<<Hold, Table(<<<<"Q", "E">>>>)>>), Body(<<Table(<<<<"Q", "H">>>>)>>)}

ConcAnswers ==
  {Ans(Key, TRUE, AnswerCell, "replace_content", <<"b">>, NoSnippet),
   Ans(Key, TRUE, AnswerCell, "append", <<"c">>, NoSnippet),
   Ans(Key, TRUE, <<[name |-> "w:p", pos |-> 9]>>, "replace_content",
       <<"b">>, NoSnippet)}

Idle == [tool |-> "none", answers |-> <<>>, seed |-> 0]

InitConc ==
  /\ doc = [t \in Threads |-> NoElem]
  /\ op = [t \in Threads |-> "idle"]
  /\ arg = [t \in Threads |-> <<>>]
  /\ res = [t \in Threads |-> <<>>]
  /\ pre = [t \in Threads |-> NoElem]
  /\ prev = [t \in Threads |-> Idle]
  /\ nWrites = 0

\* a call arrives at thread t and parses its input
Receive(t, tool, body, answers, sd) ==
  /\ op[t] \in {"idle", "done"}
  /\ nWrites < MaxCalls
  /\ nWrites' = nWrites + 1
  /\ op' = [op EXCEPT ![t] = tool]
  /\ pre' = [pre EXCEPT ![t] = body]
  /\ doc' = [doc EXCEPT ![LocalBody(t)] = body]
  /\ arg' = [arg EXCEPT ![t] = answers]
  /\ prev' = [prev EXCEPT ![t] = [tool |-> tool, answers |-> answers, seed |-> sd]]
  /\ res' = [res EXCEPT ![t] = <<>>]

\* one turn of the loop of write_answers; an exception ends the call
ApplyNext(t) ==
  /\ op[t] = "write" /\ arg[t] # <<>>
  /\ \E one \in {_apply_answer(doc[LocalBody(t)], Head(arg[t]))} :
       IF one.raised # ""
       THEN /\ res' = [res EXCEPT ![t] = [raised |-> one.raised, body |-> NoElem]]
            /\ op' = [op EXCEPT ![t] = "done"]
            /\ UNCHANGED <<doc, arg>>
       ELSE /\ doc' = [doc EXCEPT ![LocalBody(t)] = one.body]
            /\ arg' = [arg EXCEPT ![t] = Tail(arg[t])]
            /\ UNCHANGED <<op, res>>
  /\ UNCHANGED <<pre, prev, nWrites>>

\* the body is serialised and returned
ReturnWrite(t) ==
  /\ op[t] = "write" /\ arg[t] = <<>>
  /\ res' = [res EXCEPT ![t] = [raised |-> "", body |-> doc[LocalBody(t)]]]
  /\ op' = [op EXCEPT ![t] = "done"]
  /\ UNCHANGED <<doc, arg, pre, prev, nWrites>>

\* the walk of extract_structure_compact over the parsed body
ReturnIndex(t) ==
  /\ op[t] = "index"
  /\ res' = [res EXCEPT ![t] =
               extract_structure_compact(doc[LocalBody(t)], HashOrder[prev[t].seed])]
  /\ op' = [op EXCEPT ![t] = "done"]
  /\ UNCHANGED <<doc, arg, pre, prev, nWrites>>

NextConc ==
  \E t \in Threads :
    \/ \E body \in ConcForms, a \in ConcAnswers : Receive(t, "write", body, <<a>>, 0)
    \/ \E body \in ConcForms, a, b \in ConcAnswers :
         Receive(t, "write", body, <<a, b>>, 0)
    \/ \E body \in ConcForms, sd \in Seeds : Receive(t, "index", body, <<>>, sd)
    \/ ApplyNext(t)
    \/ ReturnWrite(t)
    \/ ReturnIndex(t)

SpecConc == InitConc /\ [][NextConc]_vars

\* what the call of thread t returns when it runs alone on its input
Alone(t) ==
  IF prev[t].tool = "index"
  THEN extract_structure_compact(pre[t], HashOrder[prev[t].seed])
  ELSE IF handler_write_answers(pre[t], prev[t].answers).raised # ""
       THEN [raised |-> handler_write_answers(pre[t], prev[t].answers).raised,
             body |-> NoElem]
       ELSE handler_write_answers(pre[t], prev[t].answers)

ExpectedDict(pair_id, has_xpath, xp, expected_text) ==
  [pair_id |-> pair_id, has_xpath |-> has_xpath, xpath |-> xp,
   expected_text |-> expected_text]

\* tool_errors.validate_expected_answers: the answers for the handler, the
\* warnings and where each locator came from; has_file tells whether ft and
\* file_bytes were passed
validate_expected_answers(expected_answers, has_file, body) ==
  LET n == Len(expected_answers)
      Failed == [raised |-> "ValueError", answers |-> <<>>, warnings |-> <<>>,
                 resolved_from_list |-> <<>>]
  IN  IF ~has_file
      THEN IF \E k \in 1..n : ~expected_answers[k].has_xpath THEN Failed
           ELSE [raised |-> "",
                 answers |-> [k \in 1..n |->
                    ExpectedAnswer(expected_answers[k].pair_id,
                                   expected_answers[k].xpath,
                                   expected_answers[k].expected_text)],
                 warnings |-> <<>>,
                 resolved_from_list |-> [k \in 1..n |-> "None"]]
      ELSE
        LET m == IdToXPath(body)
            resolved ==
              IF n = 0 THEN <<>>
              ELSE [id \in {expected_answers[k].pair_id : k \in 1..n}
                             \cap DOMAIN m |-> m[id]]
            Mismatch(a) ==
              a.has_xpath /\ a.pair_id \in DOMAIN resolved
                /\ resolved[a.pair_id] # a.xpath
        IN  IF \E k \in 1..n : ~expected_answers[k].has_xpath
                                 /\ expected_answers[k].pair_id \notin DOMAIN resolved
            THEN Failed
            ELSE [raised |-> "",
                  answers |-> [k \in 1..n |->
                     ExpectedAnswer(
                       expected_answers[k].pair_id,
                       IF ~expected_answers[k].has_xpath \/ Mismatch(expected_answers[k])
                       THEN resolved[expected_answers[k].pair_id]
                       ELSE expected_answers[k].xpath,
                       expected_answers[k].expected_text)],
                  warnings |-> cross_check_xpaths(expected_answers, resolved),
                  resolved_from_list |-> [k \in 1..n |->
                     IF ~expected_answers[k].has_xpath \/ Mismatch(expected_answers[k])
                     THEN "pair_id" ELSE "xpath"]]

\* tools_write.verify_output: the answers are validated without ft and
\* file_bytes, and the report of the handler is returned as it is
tool_verify_output(body, expected_answers) ==
  LET v == validate_expected_answers(expected_answers, FALSE, body)
  IN  IF v.raised # ""
      THEN [raised |-> v.raised, content_results |-> <<>>, warnings |-> <<>>]
      ELSE [raised |-> verify_output(body, v.answers).raised,
            content_results |-> verify_output(body, v.answers).content_results,
            warnings |-> <<>>]

\* a locator in the form of the test's wrong xpath: it matches nothing
NowhereXPath == <<[name |-> "w:tbl", pos |-> 9], [name |-> "w:tr", pos |-> 9],
                  [name |-> "w:tc", pos |-> 9]>>

\* answers with a pair_id and an xpath that may disagree with it
CrossAnswers(body) ==
  {Ans(id, has, xp, "none", <<"b">>, NoSnippet) :
     id \in Ids(body) \cup {<<"T", 9, 1, 1>>},
     has \in {TRUE}, xp \in IdLocators(body) \cup {NowhereXPath}}
  \cup {Ans(id, FALSE, <<>>, "none", <<"b">>, NoSnippet) : id \in Ids(body)}

CrossExpected(body) ==
  {ExpectedDict(id, TRUE, xp, t) :
     id \in Ids(body) \cup {<<"T", 9, 1, 1>>},
     xp \in IdLocators(body) \cup {NowhereXPath}, t \in {<<"a">>, <<"b">>}}
  \cup {ExpectedDict(id, FALSE, <<>>, <<"b">>) : id \in Ids(body)}

\* verify_output, the tool
ToolVerify(expected_answers) ==
  /\ op' = "tool_verify" /\ arg' = expected_answers
  /\ res' = tool_verify_output(doc, expected_answers)
  /\ prev' = <<>> /\ pre' = doc
  /\ UNCHANGED <<doc, nWrites>>

NextCross ==
  \/ \E a \in CrossAnswers(doc) : Write(<<a>>)
  \/ \E e \in CrossExpected(doc) : ToolVerify(<<e>>)

SpecCross == Init /\ [][NextCross]_vars

\* the answer a has a pair_id of the index of body and an xpath that is not
\* the locator of that pair_id
Disagrees(a, body) ==
  /\ a.has_xpath /\ a.pair_id \in Ids(body)
  /\ a.xpath # IdToXPath(body)[a.pair_id]

\* the element a locator of the index addresses
ElementAt(body, xp) == NodeAt(body, xpath(body, xp)[1])

\* the write half of C27: the element of the pair_id receives the answer,
\* the element of the xpath is left alone, and the pair_id is warned about
WriteFollowsPairId ==
  (op = "write" /\ Disagrees(arg[1], pre)) =>
     /\ res.has_bytes
     /\ \E k \in 1..Len(res.warnings) : res.warnings[k] = arg[1].pair_id
     /\ _extract_text(ElementAt(doc, IdToXPath(pre)[arg[1].pair_id])) = arg[1].answer_text
     /\ xpath(pre, arg[1].xpath) # <<>> =>
          ElementAt(doc, arg[1].xpath) = ElementAt(pre, arg[1].xpath)

\* the verify half of C27: the element of the pair_id is the one compared,
\* and the pair_id is warned about
VerifyFollowsPairId ==
  (op = "tool_verify" /\ Disagrees(arg[1], doc)) =>
     /\ res.raised = ""
     /\ \E k \in 1..Len(res.warnings) : res.warnings[k] = arg[1].pair_id
     /\ res.content_results[1].actual =
          _extract_text(ElementAt(doc, IdToXPath(doc)[arg[1].pair_id]))

\* C27: when an answer of write_answers or verify_output has a pair_id of
\* the index and an xpath that is not its locator, the element of the
\* pair_id is written or verified and a warning names the pair_id
C27_PairIdAuthority == WriteFollowsPairId /\ VerifyFollowsPairId

\* a real write that fails with an error about the locator: the grammar
\* check, no element matched, or the expression does not evaluate
LocatorError(w) == w.raised \in {PatternError, NoMatchError, "XPathEvalError"}

\* a dry run whose one preview has status error
PreviewError(r) ==
  r.raised = "" /\ Len(r.preview) = 1 /\ r.preview[1].status = "error"

\* the preview r reads the element the real write w of the same answer on
\* body modifies: its text is the current text, and w differs from body
\* at that element alone
ReadsWrittenElement(r, w, body) ==
  \A p \in {xpath(body, r.preview[1].xpath)[1]} :
    /\ r.preview[1].current_text = get_text(NodeAt(body, p))
    /\ w.has_bytes => ReplaceAt(w.body, p, NodeAt(body, p)) = body

\* C28: the preview of a one-answer dry run has status error exactly when
\* the real write of that answer on the same document fails with a locator
\* error, and otherwise reads the element the real write modifies
C28_DryRunAsWrite ==
  (op = "dry_run" /\ Len(arg) = 1) =>
    \A w \in {tool_write_answers(doc, arg, FALSE)} :
      /\ PreviewError(res) <=> LocatorError(w)
      /\ (res.raised = "" /\ Len(res.preview) = 1
            /\ res.preview[1].status \in {"ok", "warning"}) =>
           ReadsWrittenElement(res, w, doc)

\* the same with the locators the write refuses or cannot evaluate set aside
C28_GrammarLocators ==
  (op = "dry_run" /\ Len(arg) = 1
     /\ (arg[1].has_xpath => _validate_xpath(arg[1].xpath))) =>
    \A w \in {tool_write_answers(doc, arg, FALSE)} :
      /\ PreviewError(res) <=> LocatorError(w)
      /\ (res.raised = "" /\ Len(res.preview) = 1
            /\ res.preview[1].status \in {"ok", "warning"}) =>
           ReadsWrittenElement(res, w, doc)

\* the locator the write uses for answer a on body: the one resolved from
\* the pair_id where there is one, the caller's otherwise
TargetOf(a, body) ==
  IF a.pair_id \in Ids(body) THEN IdToXPath(body)[a.pair_id] ELSE a.xpath

\* every answer of the batch is written at a locator of the index of body
IndexTargets(answers, body) ==
  \A k \in 1..Len(answers) :
    /\ answers[k].pair_id \in Ids(body) \/ answers[k].has_xpath
    /\ TargetOf(answers[k], body) \in IdLocators(body)

\* C29: after a successful write whose targets are locators of the index of
\* the input, the index of the output has the same Stable IDs, each with
\* the same locator
C29_AddressesKept ==
  (op = "write" /\ res.has_bytes /\ IndexTargets(arg, pre)) =>
     IdToXPath(doc) = IdToXPath(pre)

C29_Witness ==
  /\ op = "write" /\ res.has_bytes /\ IndexTargets(arg, pre)
  /\ doc # pre /\ nWrites = 2
  /\ arg[1].insertion_xml = ParaXml /\ arg[1].mode = "append"

(***************************************************************************)
(* Batches against sequences of single writes, for Word documents and      *)
(* workbooks.                                                              *)
(***************************************************************************)
\* the answers of the Word batches: two texts for one cell by Stable ID, a
\* placeholder replacement there, run markup appended to the question cell,
\* and a locator that matches nothing
WordBatchAnswers(body) ==
  {Ans(<<"T", 1, 1, 2>>, FALSE, <<>>, "none", v, NoSnippet) :
     v \in {<<"b">>, <<"c">>}}
  \cup {Ans(<<"T", 1, 1, 2>>, FALSE, <<>>, "replace_placeholder", <<"c">>, NoSnippet),
        Ans(Key, TRUE, IdToXPath(body)[<<"T", 1, 1, 1>>], "append", <<>>, RunXml),
        Ans(Key, TRUE, NowhereXPath, "replace_content", <<"b">>, NoSnippet)}

InitBatch ==
  /\ \/ doc \in Workbooks /\ op = "xl_init"
     \/ doc \in SeedForms /\ op = "init"
  /\ arg = <<>> /\ res = <<>>
  /\ pre = doc /\ prev = <<>> /\ nWrites = 0

NextBatch ==
  \/ op \in XlOps /\ \E a \in XlBatchAnswers : XlWrite(<<a>>)
  \/ op \in XlOps /\ \E a, b \in XlBatchAnswers : XlWrite(<<a, b>>)
  \/ op \notin XlOps /\ \E a \in WordBatchAnswers(doc) : Write(<<a>>)
  \/ op \notin XlOps /\ \E a, b \in WordBatchAnswers(doc) : Write(<<a, b>>)

SpecBatch == InitBatch /\ [][NextBatch]_vars

\* the texts of the indexed elements of a Word document, by Stable ID
ElementTexts(body) ==
  [id \in Ids(body) |-> get_text(ElementAt(body, IdToXPath(body)[id]))]

\* the values of the indexed cells of a workbook, by cell ID
CellValues(wb) ==
  [id \in SheetIds(wb) |-> CellValue(wb[ToInt(id.s)], ToInt(id.r), ToInt(id.c))]

\* the two answers of the last Word batch written one call after the other
WordInTurn ==
  LET one == tool_write_answers(pre, <<arg[1]>>, FALSE)
  IN  IF ~one.has_bytes THEN one
      ELSE tool_write_answers(one.body, <<arg[2]>>, FALSE)

\* the two answers of the last workbook batch written one call after the
\* other
ExcelInTurn ==
  LET one == excel_write_answers(pre, <<arg[1]>>)
  IN  IF ~one.has_bytes THEN one
      ELSE excel_write_answers(one.wb, <<arg[2]>>)

\* C30: a batch of two answers succeeds exactly when the two one-answer
\* calls in that order succeed, and then gives the same element texts; two
\* replace_content answers for one element leave the later content only
C30_BatchInOrder ==
  /\ (op = "write" /\ Len(arg) = 2) =>
       \A t \in {WordInTurn} :
         /\ res.has_bytes = t.has_bytes
         /\ res.has_bytes => ElementTexts(doc) = ElementTexts(t.body)
         /\ (res.has_bytes /\ arg[1].mode = "none" /\ arg[2].mode = "none"
               /\ arg[1].pair_id = arg[2].pair_id) =>
              ElementTexts(doc)[arg[2].pair_id] = arg[2].answer_text
  /\ (op = "xl_write" /\ Len(arg) = 2) =>
       \A t \in {ExcelInTurn} :
         /\ res.has_bytes = t.has_bytes
         /\ res.has_bytes => CellValues(doc) = CellValues(t.wb)
         /\ (res.has_bytes /\ arg[1].cell_id = arg[2].cell_id) =>
              CellValues(doc)[arg[2].cell_id] = arg[2].value

\* a Word batch that gave one cell the text b and then the text c
C30_Witness ==
  /\ op = "write" /\ Len(arg) = 2 /\ res.has_bytes /\ nWrites = 2
  /\ arg[1].pair_id = arg[2].pair_id
  /\ arg[1].mode = "none" /\ arg[2].mode = "none"
  /\ arg[1].answer_text = <<"b">> /\ arg[2].answer_text = <<"c">>
  /\ ElementTexts(doc)[arg[2].pair_id] = <<"c">>

====
